---- MODULE Spec2Model ----
(***************************************************************************)
(* Model of the Nutrient DWS MCP server core: the sandbox path resolver    *)
(* (src/fs/sandbox.ts), the build / sign / AI-redact operations            *)
(* (src/dws/build.ts, sign.ts, ai-redact.ts), the HTTP client              *)
(* (src/dws/api.ts) and the response helpers (src/dws/utils.ts).           *)
(*                                                                         *)
(* Strings are sequences of one-character strings, so that startsWith,     *)
(* path.resolve, path.relative, path.basename and the key regex are        *)
(* computed on characters, as the code computes them (POSIX path rules).   *)
(***************************************************************************)
EXTENDS Naturals, Sequences, FiniteSets, TLC

(* ------------------------------------------------------------------ *)
(* Bounds of the model                                                  *)
(* ------------------------------------------------------------------ *)

\* longest enumerated path string, counted in "/"-separated segments
MaxSegs == 3

\* most document parts in an enumerated instruction graph
MaxParts == 2

(* ------------------------------------------------------------------ *)
(* Strings                                                              *)
(* ------------------------------------------------------------------ *)

EmptyStr == << >>

\* String.prototype.startsWith
StartsWith(s, prefix) ==
  /\ Len(s) >= Len(prefix)
  /\ \A i \in 1..Len(prefix) : s[i] = prefix[i]

\* the characters the regex class [a-zA-Z0-9] of the key derivation accepts;
\* the model's strings hold no upper-case letter
AlphaNumeric ==
  {"a", "b", "c", "d", "e", "f", "g", "h", "i", "j", "k", "l", "m", "n", "o", "p", "q",
   "r", "s", "t", "u", "v", "w", "x", "y", "z", "0", "1", "2", "3", "4", "5", "6", "7",
   "8", "9"}

RECURSIVE SplitFrom(_, _, _)
\* s.split('/') : the segments between slashes, empty ones included
SplitFrom(s, i, cur) ==
  IF i > Len(s) THEN << cur >>
  ELSE IF s[i] = "/" THEN << cur >> \o SplitFrom(s, i + 1, EmptyStr)
  ELSE SplitFrom(s, i + 1, Append(cur, s[i]))

Split(s) == SplitFrom(s, 1, EmptyStr)

RECURSIVE JoinSegs(_)
\* segments joined with "/" (no leading slash)
JoinSegs(segs) ==
  IF Len(segs) = 0 THEN EmptyStr
  ELSE IF Len(segs) = 1 THEN segs[1]
  ELSE segs[1] \o << "/" >> \o JoinSegs(Tail(segs))

(* ------------------------------------------------------------------ *)
(* node:path, POSIX flavour                                             *)
(* ------------------------------------------------------------------ *)

DotDot == << ".", "." >>
Dot == << "." >>

\* process.cwd(), the base of path.resolve for relative strings
Cwd == << "/", "w" >>

\* path.isAbsolute
IsAbsolute(s) == Len(s) > 0 /\ s[1] = "/"

RECURSIVE NormalizeSegs(_, _, _)
\* normalizeString of node:path: drops empty and "." segments, lets ".."
\* remove the segment before it; above the root ".." is dropped, and in a
\* relative path it is kept
NormalizeSegs(segs, acc, allowAboveRoot) ==
  IF Len(segs) = 0 THEN acc
  ELSE LET h == Head(segs)
           t == Tail(segs)
       IN IF h = EmptyStr \/ h = Dot THEN NormalizeSegs(t, acc, allowAboveRoot)
          ELSE IF h = DotDot
            THEN IF Len(acc) > 0 /\ acc[Len(acc)] # DotDot
                   THEN NormalizeSegs(t, SubSeq(acc, 1, Len(acc) - 1), allowAboveRoot)
                 ELSE IF allowAboveRoot
                   THEN NormalizeSegs(t, Append(acc, h), allowAboveRoot)
                 ELSE NormalizeSegs(t, acc, allowAboveRoot)
          ELSE NormalizeSegs(t, Append(acc, h), allowAboveRoot)

\* the segments of an absolute, normalized path
AbsSegs(s) == NormalizeSegs(Split(s), << >>, FALSE)

\* path.resolve(s): absolute and normalized, no trailing slash
PathResolve(s) ==
  IF IsAbsolute(s) THEN << "/" >> \o JoinSegs(AbsSegs(s))
  ELSE << "/" >> \o JoinSegs(AbsSegs(Cwd \o << "/" >> \o s))

NormalizedText(abs, trailing, body) ==
  IF Len(body) = 0
    THEN (IF abs THEN << "/" >> ELSE IF trailing THEN << ".", "/" >> ELSE Dot)
  ELSE (IF abs THEN << "/" >> ELSE EmptyStr) \o body
       \o (IF trailing THEN << "/" >> ELSE EmptyStr)

\* path.normalize(s): keeps relativity and a trailing slash
PathNormalize(s) ==
  IF Len(s) = 0 THEN Dot
  ELSE NormalizedText(IsAbsolute(s), s[Len(s)] = "/",
                      JoinSegs(NormalizeSegs(Split(s), << >>, ~IsAbsolute(s))))

\* path.join(a, b): the non-empty arguments joined by "/" and normalized
PathJoin(a, b) ==
  IF Len(a) = 0 /\ Len(b) = 0 THEN Dot
  ELSE IF Len(a) = 0 THEN PathNormalize(b)
  ELSE IF Len(b) = 0 THEN PathNormalize(a)
  ELSE PathNormalize(a \o << "/" >> \o b)

RECURSIVE CommonPrefixLen(_, _)
CommonPrefixLen(a, b) ==
  IF Len(a) = 0 \/ Len(b) = 0 \/ Head(a) # Head(b) THEN 0
  ELSE 1 + CommonPrefixLen(Tail(a), Tail(b))

\* one ".." per segment of f after the first n, then the segments of t after them
RelativeSegs(f, t, n) == [i \in 1..(Len(f) - n) |-> DotDot] \o SubSeq(t, n + 1, Len(t))

RelativeOfSegs(f, t) == JoinSegs(RelativeSegs(f, t, CommonPrefixLen(f, t)))

\* path.relative(from, to): both resolved, the common leading segments
\* dropped, one ".." per remaining segment of from, then the rest of to
PathRelative(from, to) == RelativeOfSegs(AbsSegs(PathResolve(from)), AbsSegs(PathResolve(to)))

DirnameOfSegs(segs) ==
  IF Len(segs) <= 1 THEN << "/" >>
  ELSE << "/" >> \o JoinSegs(SubSeq(segs, 1, Len(segs) - 1))

\* path.dirname of an absolute normalized path
PathDirname(s) == DirnameOfSegs(AbsSegs(s))

\* path.basename of an absolute normalized path
PathBasename(s) == IF Len(AbsSegs(s)) = 0 THEN EmptyStr ELSE AbsSegs(s)[Len(AbsSegs(s))]

(* ------------------------------------------------------------------ *)
(* State                                                                *)
(* ------------------------------------------------------------------ *)

VARIABLES
  sandboxDirectory,  \* sandbox.ts:4, the jail root; the empty string stands for null
  apiKey,            \* process.env.NUTRIENT_DWS_API_KEY; the empty string: not set
  fsys,              \* the filesystem: absolute normalized path -> entry
  pc,                \* "idle": no call running; "done": a call has completed
  op,                \* the operation of the last call
  args,              \* its arguments
  result,            \* what its promise settled to
  trace,             \* the filesystem and network accesses it made, in order
  requests,          \* the HTTP requests it issued, in order
  calls              \* the tool calls in flight when calls interleave at their
                     \* await points: call -> its position and its locals

vars == << sandboxDirectory, apiKey, fsys, pc, op, args, result, trace, requests, calls >>

(* ------------------------------------------------------------------ *)
(* Texts: messages are sequences of tokens, a token being a literal of  *)
(* the source, a run-time string or a response body                     *)
(* ------------------------------------------------------------------ *)

\* no response body
NoBody == [json |-> "none", details |-> "absent", status |-> "absent",
           requestId |-> "absent", failingPaths |-> "absent", stream |-> "ok"]

Lit(s) == << [lit |-> s, str |-> EmptyStr, body |-> NoBody, fmt |-> "lit"] >>

StrTok(x) == << [lit |-> "", str |-> x, body |-> NoBody, fmt |-> "str"] >>

\* the text of a body as it was received
RawTok(b) == << [lit |-> "", str |-> EmptyStr, body |-> b, fmt |-> "raw"] >>

\* JSON.stringify(JSON.parse(text), null, 2): the parsed fields, re-serialized
JsonTok(b) == << [lit |-> "", str |-> EmptyStr, body |-> b, fmt |-> "json"] >>

\* an Error that is no AxiosError
PlainError(msg) == [message |-> msg, isAxios |-> FALSE, hasData |-> FALSE, data |-> NoBody]

(* ------------------------------------------------------------------ *)
(* Outcomes of a step that may throw, threaded through a world          *)
(* w = [fs, trace, requests]                                            *)
(* ------------------------------------------------------------------ *)

NoError == PlainError(<< >>)

Ret(w, v) == [w |-> w, threw |-> FALSE, val |-> v, err |-> NoError]

Throw(w, e) == [w |-> w, threw |-> TRUE, val |-> EmptyStr, err |-> e]

\* the world with one more access recorded
Touch(w, ev, p) == [w EXCEPT !.trace = Append(@, [ev |-> ev, path |-> p])]

(* ------------------------------------------------------------------ *)
(* node:fs (fs.promises), on the modelled filesystem                    *)
(* ------------------------------------------------------------------ *)

DirEntry(mode) == [kind |-> "dir", mode |-> mode, data |-> "-"]

FileEntry(mode, data) == [kind |-> "file", mode |-> mode, data |-> data]

\* an entry that is neither a file nor a directory: a FIFO, a socket
OtherEntry(mode) == [kind |-> "other", mode |-> mode, data |-> "-"]

Exists(fs, p) == p \in DOMAIN fs

IsDir(fs, p) == Exists(fs, p) /\ fs[p].kind = "dir"

IsFile(fs, p) == Exists(fs, p) /\ fs[p].kind = "file"

Writable(fs, p) == Exists(fs, p) /\ fs[p].mode \in {"rw", "wo"}

Readable(fs, p) == Exists(fs, p) /\ fs[p].mode \in {"rw", "ro"}

FsError(code, p) == PlainError(Lit(code) \o StrTok(p))

\* p and everything below it
Subtree(fs, p) ==
  {q \in DOMAIN fs : q = p \/ StartsWith(q, IF p = << "/" >> THEN p ELSE p \o << "/" >>)}

Remove(fs, gone) == [q \in (DOMAIN fs) \ gone |-> fs[q]]

\* the ancestors of p from the root down, p itself last
Ancestors(p) ==
  [i \in 1..Len(AbsSegs(p)) |-> << "/" >> \o JoinSegs(SubSeq(AbsSegs(p), 1, i))]

\* fs.promises.access(p): F_OK
FsAccess(w, p) ==
  IF Exists(w.fs, p) THEN Ret(Touch(w, "access", p), p)
  ELSE Throw(Touch(w, "access", p), FsError("ENOENT: no such file or directory, access ", p))

\* fs.promises.access(p, fs.constants.R_OK)
FsAccessRead(w, p) ==
  IF ~Exists(w.fs, p)
    THEN Throw(Touch(w, "access", p), FsError("ENOENT: no such file or directory, access ", p))
  ELSE IF ~Readable(w.fs, p)
    THEN Throw(Touch(w, "access", p), FsError("EACCES: permission denied, access ", p))
  ELSE Ret(Touch(w, "access", p), p)

\* fs.promises.stat(p); the value is the kind of the entry
FsStat(w, p) ==
  IF Exists(w.fs, p) THEN Ret(Touch(w, "stat", p), w.fs[p].kind)
  ELSE Throw(Touch(w, "stat", p), FsError("ENOENT: no such file or directory, stat ", p))

\* fs.promises.open(p, 'r+') followed by fd.close()
FsOpenReadWriteClose(w, p) ==
  IF ~Exists(w.fs, p)
    THEN Throw(Touch(w, "open", p), FsError("ENOENT: no such file or directory, open ", p))
  ELSE IF IsDir(w.fs, p)
    THEN Throw(Touch(w, "open", p), FsError("EISDIR: illegal operation on a directory, open ", p))
  ELSE IF ~Writable(w.fs, p) \/ ~Readable(w.fs, p)
    THEN Throw(Touch(w, "open", p), FsError("EACCES: permission denied, open ", p))
  ELSE Ret(Touch(Touch(w, "open", p), "close", p), p)

\* fs.promises.readFile(p); the value is the content
FsReadFile(w, p) ==
  IF ~Exists(w.fs, p)
    THEN Throw(Touch(w, "readFile", p), FsError("ENOENT: no such file or directory, open ", p))
  ELSE IF IsDir(w.fs, p)
    THEN Throw(Touch(w, "readFile", p), FsError("EISDIR: illegal operation on a directory, read ", p))
  ELSE IF ~Readable(w.fs, p)
    THEN Throw(Touch(w, "readFile", p), FsError("EACCES: permission denied, open ", p))
  ELSE Ret(Touch(w, "readFile", p), w.fs[p].data)

\* fs.promises.readdir(p)
FsReaddir(w, p) ==
  IF ~Exists(w.fs, p)
    THEN Throw(Touch(w, "readdir", p), FsError("ENOENT: no such file or directory, scandir ", p))
  ELSE IF ~IsDir(w.fs, p)
    THEN Throw(Touch(w, "readdir", p), FsError("ENOTDIR: not a directory, scandir ", p))
  ELSE IF ~Readable(w.fs, p)
    THEN Throw(Touch(w, "readdir", p), FsError("EACCES: permission denied, scandir ", p))
  ELSE Ret(Touch(w, "readdir", p), p)

\* mkdir -p with the first missing ancestor anc[first] known
MkdirFrom(w, p, anc, first) ==
  IF ~Writable(w.fs, PathDirname(anc[first]))
    THEN Throw(w, FsError("EACCES: permission denied, mkdir ", p))
  ELSE Ret([w EXCEPT !.fs = [q \in {anc[i] : i \in first..Len(anc)} |-> DirEntry("rw")] @@ w.fs],
           anc[first])

\* mkdir -p along the ancestors anc of p
MkdirAlong(w, p, anc) ==
  IF \E i \in 1..Len(anc) : IsFile(w.fs, anc[i])
    THEN Throw(w, FsError("ENOTDIR: not a directory, mkdir ", p))
  ELSE IF \A i \in 1..Len(anc) : Exists(w.fs, anc[i]) THEN Ret(w, EmptyStr)
  ELSE MkdirFrom(w, p, anc,
                 CHOOSE i \in 1..Len(anc) :
                   ~Exists(w.fs, anc[i]) /\ \A j \in 1..(i - 1) : Exists(w.fs, anc[j]))

\* fs.promises.mkdir(p, { recursive: true }); the value is the first
\* directory created, or the empty string (undefined) when none was
FsMkdirRecursive(w, p) == MkdirAlong(Touch(w, "mkdir", p), p, Ancestors(p))

\* writeFile with the parent directory known
WriteFileIn(w, p, data, parent) ==
  IF IsDir(w.fs, p)
    THEN Throw(w, FsError("EISDIR: illegal operation on a directory, open ", p))
  ELSE IF ~Exists(w.fs, parent)
    THEN Throw(w, FsError("ENOENT: no such file or directory, open ", p))
  ELSE IF ~IsDir(w.fs, parent)
    THEN Throw(w, FsError("ENOTDIR: not a directory, open ", p))
  ELSE IF Exists(w.fs, p)
    THEN IF Writable(w.fs, p)
           THEN Ret([w EXCEPT !.fs = [w.fs EXCEPT ![p].data = data]], p)
         ELSE Throw(w, FsError("EACCES: permission denied, open ", p))
  ELSE IF Writable(w.fs, parent)
    THEN Ret([w EXCEPT !.fs = (p :> FileEntry("rw", data)) @@ w.fs], p)
  ELSE Throw(w, FsError("EACCES: permission denied, open ", p))

\* fs.promises.writeFile(p, data)
FsWriteFile(w, p, data) == WriteFileIn(Touch(w, "writeFile", p), p, data, PathDirname(p))

\* fs.promises.rm(p, { recursive: true })
FsRmRecursive(w, p) ==
  IF ~Exists(w.fs, p)
    THEN Throw(Touch(w, "rm", p), FsError("ENOENT: no such file or directory, rm ", p))
  ELSE IF ~Writable(w.fs, PathDirname(p))
    THEN Throw(Touch(w, "rm", p), FsError("EACCES: permission denied, rm ", p))
  ELSE Ret([Touch(w, "rm", p) EXCEPT !.fs = Remove(w.fs, Subtree(w.fs, p))], p)

\* fs.promises.unlink(p)
FsUnlink(w, p) ==
  IF ~Exists(w.fs, p)
    THEN Throw(Touch(w, "unlink", p), FsError("ENOENT: no such file or directory, unlink ", p))
  ELSE IF IsDir(w.fs, p)
    THEN Throw(Touch(w, "unlink", p), FsError("EISDIR: illegal operation on a directory, unlink ", p))
  ELSE IF ~Writable(w.fs, PathDirname(p))
    THEN Throw(Touch(w, "unlink", p), FsError("EACCES: permission denied, unlink ", p))
  ELSE Ret([Touch(w, "unlink", p) EXCEPT !.fs = Remove(w.fs, {p})], p)

(* ------------------------------------------------------------------ *)
(* src/fs/sandbox.ts                                                    *)
(* ------------------------------------------------------------------ *)

\* mutant: the test for a leading ".." is forgotten
relativeIsInside_NoDotDotTest(relativePath) == ~IsAbsolute(relativePath)

\* sandbox.ts:33, the test on the relative path
relativeIsInside(relativePath) ==
  ~StartsWith(relativePath, DotDot) /\ ~IsAbsolute(relativePath)

\* sandbox.ts:28-34 (called only with the sandbox directory set)
isInsideSandboxDirectory(filePath) ==
  relativeIsInside(PathRelative(sandboxDirectory, filePath))

EscapeError(pathStr) ==
  PlainError(Lit("Invalid Path: ") \o StrTok(pathStr)
     \o Lit(". You may only access files within the sandbox directory, please use relative paths."))

AbsoluteRequiredError(pathStr) ==
  PlainError(Lit("Invalid Path: ") \o StrTok(pathStr)
     \o Lit(". Absolute paths are required when sandbox is not enabled. Use / (MacOS/Linux) or C:\\ (Windows) to start from the root directory."))

\* sandbox.ts:41-44, the candidate absolute path with the sandbox enabled
candidatePath(pathStr) ==
  IF IsAbsolute(pathStr) /\ isInsideSandboxDirectory(pathStr)
    THEN PathResolve(pathStr)
  ELSE PathResolve(PathJoin(sandboxDirectory, pathStr))

\* sandbox.ts:46-51
checkCandidate(w, pathStr, absolutePath) ==
  IF ~isInsideSandboxDirectory(absolutePath) THEN Throw(w, EscapeError(pathStr))
  ELSE Ret(w, absolutePath)

\* mutant: without a sandbox a relative path is resolved against the
\* working directory instead of being rejected
resolvePath_RelativeAccepted(w, pathStr) ==
  IF sandboxDirectory # EmptyStr THEN checkCandidate(w, pathStr, candidatePath(pathStr))
  ELSE Ret(w, PathResolve(pathStr))

\* sandbox.ts:36-60
resolvePath(w, pathStr) ==
  IF sandboxDirectory # EmptyStr THEN checkCandidate(w, pathStr, candidatePath(pathStr))
  ELSE IF ~IsAbsolute(pathStr) THEN Throw(w, AbsoluteRequiredError(pathStr))
  ELSE Ret(w, PathResolve(pathStr))

\* sandbox.ts:87-90
readFileStat(p, st) ==
  IF st.threw THEN st
  ELSE IF st.val # "file"
    THEN Throw(st.w, PlainError(Lit("Path is not a file: ") \o StrTok(p)))
  ELSE Ret(st.w, p)

\* sandbox.ts:85-86
readFileAccess(p, ac) == IF ac.threw THEN ac ELSE readFileStat(p, FsStat(ac.w, p))

readFileResolved(r) == IF r.threw THEN r ELSE readFileAccess(r.val, FsAccess(r.w, r.val))

\* sandbox.ts:83-91
resolveReadFilePath(w, filePath) == readFileResolved(resolvePath(w, filePath))

\* sandbox.ts:114-118
probeCleanup(wr, resolvedFilePath, createdFolderPath) ==
  IF wr.threw THEN wr
  ELSE IF createdFolderPath # EmptyStr THEN FsRmRecursive(wr.w, createdFolderPath)
  ELSE FsUnlink(wr.w, resolvedFilePath)

\* sandbox.ts:113
probeWriteFile(mk, resolvedFilePath) ==
  IF mk.threw THEN mk
  ELSE probeCleanup(FsWriteFile(mk.w, resolvedFilePath, "test"), resolvedFilePath, mk.val)

\* sandbox.ts:108-112
probeMkdir(ac, outputDir) ==
  IF ac.threw THEN FsMkdirRecursive(ac.w, outputDir) ELSE Ret(ac.w, EmptyStr)

\* sandbox.ts:105-118, the catch block: probe the target by writing to it
probeWrite(w, resolvedFilePath, outputDir) ==
  probeWriteFile(probeMkdir(FsAccess(w, outputDir), outputDir), resolvedFilePath)

\* the value of resolveWriteFilePath after its probe
writeFileProbed(pr, resolvedFilePath) == IF pr.threw THEN pr ELSE Ret(pr.w, resolvedFilePath)

\* sandbox.ts:101-105
writeFileOpened(opn, resolvedFilePath) ==
  IF ~opn.threw THEN Ret(opn.w, resolvedFilePath)
  ELSE writeFileProbed(probeWrite(opn.w, resolvedFilePath, PathDirname(resolvedFilePath)),
                       resolvedFilePath)

\* sandbox.ts:102-104
writeFileAccess(ac, resolvedFilePath) ==
  writeFileOpened(IF ac.threw THEN ac ELSE FsOpenReadWriteClose(ac.w, resolvedFilePath),
                  resolvedFilePath)

writeFileResolved(r) == IF r.threw THEN r ELSE writeFileAccess(FsAccess(r.w, r.val), r.val)

\* sandbox.ts:99-121
resolveWriteFilePath(w, filePath) == writeFileResolved(resolvePath(w, filePath))

\* an assignment that does not wait for the directory
sandboxSet_Always(mk, resolvedDirectory) == Ret(mk.w, resolvedDirectory)

\* sandbox.ts:25
sandboxSet(mk, resolvedDirectory) == IF mk.threw THEN mk ELSE Ret(mk.w, resolvedDirectory)

\* sandbox.ts:21-23
sandboxMkdir(rd, resolvedDirectory) ==
  sandboxSet(IF rd.threw THEN FsMkdirRecursive(rd.w, resolvedDirectory) ELSE rd, resolvedDirectory)

\* sandbox.ts:19-20
sandboxReaddir(ac, resolvedDirectory) ==
  sandboxMkdir(IF ac.threw THEN ac ELSE FsReaddir(ac.w, resolvedDirectory), resolvedDirectory)

sandboxAccess(w, resolvedDirectory) == sandboxReaddir(FsAccess(w, resolvedDirectory), resolvedDirectory)

\* sandbox.ts:10-26; the value is the new sandbox directory
setSandboxDirectory(w, directory) ==
  IF directory = EmptyStr THEN Ret(w, EmptyStr)
  ELSE sandboxAccess(w, PathResolve(directory))

(* ------------------------------------------------------------------ *)
(* Calls: arguments and results                                         *)
(* ------------------------------------------------------------------ *)

NoInstructions == [parts |-> << >>, actions |-> << >>, output |-> "pdf"]

\* a remote response: the outcome of the HTTP exchange and the body
NoResponse == [outcome |-> "none", body |-> NoBody]

NoArgs == [path |-> EmptyStr, out |-> EmptyStr, instructions |-> NoInstructions,
           stage |-> FALSE, apply |-> FALSE,
           watermark |-> EmptyStr, graphic |-> EmptyStr, response |-> NoResponse]

NoResult == [settled |-> "none", value |-> EmptyStr, isError |-> FALSE,
             text |-> << >>, error |-> NoError]

\* a promise fulfilled with a value that is no tool result (a path)
Fulfilled(v) == [NoResult EXCEPT !.settled = "fulfilled", !.value = v]

\* a promise rejected with an error
Rejected(e) == [NoResult EXCEPT !.settled = "rejected", !.error = e]

World == [fs |-> fsys, trace |-> << >>, requests |-> << >>]

\* the promise of an outcome whose value is a path
Settle(r) == IF r.threw THEN Rejected(r.err) ELSE Fulfilled(r.val)

(* ------------------------------------------------------------------ *)
(* src/responses.ts                                                     *)
(* ------------------------------------------------------------------ *)

createSuccessResponse(message) ==
  [NoResult EXCEPT !.settled = "fulfilled", !.isError = FALSE, !.text = message]

createErrorResponse(message) ==
  [NoResult EXCEPT !.settled = "fulfilled", !.isError = TRUE, !.text = message]

\* an async function has finished: the world it leaves and its promise
Done(w, promise) == [w |-> w, promise |-> promise]

(* ------------------------------------------------------------------ *)
(* src/dws/utils.ts and src/dws/api.ts                                  *)
(* ------------------------------------------------------------------ *)

\* a JSON value that converts to true
Truthy(field) == field = "truthy"

\* the error a response stream emits when it breaks before its end
StreamError == PlainError(Lit("aborted"))

\* AxiosError with a response: e.response.data is the body stream
AxiosResponseError(body) ==
  [message |-> Lit("Request failed"), isAxios |-> TRUE, hasData |-> TRUE, data |-> body]

\* AxiosError without a response
AxiosNetworkError ==
  [message |-> Lit("Network Error"), isAxios |-> TRUE, hasData |-> FALSE, data |-> NoBody]

\* the test of a parsed body at utils handleApiError, with one field only
isHostedErrorResponse_DetailsOnly(body) == body.json = "object" /\ Truthy(body.details)

\* JSON.parse succeeded and the value has the HostedErrorResponse shape;
\* JSON.parse throws on text that is no JSON, reading a property of null
\* throws, and a property a scalar lacks is undefined
isHostedErrorResponse(body) ==
  /\ body.json = "object"
  /\ Truthy(body.details)
  /\ (Truthy(body.status) \/ Truthy(body.requestId) \/ Truthy(body.failingPaths))

handleApiError(e) ==
  IF e.isAxios /\ e.hasData
    THEN IF e.data.stream = "error"
           THEN createErrorResponse(Lit("Error processing API response: ") \o StreamError.message)
         ELSE IF isHostedErrorResponse(e.data)
           THEN createErrorResponse(JsonTok(e.data))
         ELSE createErrorResponse(Lit("Error processing API response: ") \o RawTok(e.data))
  ELSE createErrorResponse(Lit("Error: ") \o e.message)

\* the request as axios sends it
\* the timeout of a request whose configuration sets none: axios waits
\* without limit
NoTimeout == 0

Request(endpoint, contentType, instructions, data, files) ==
  [endpoint |-> endpoint, contentType |-> contentType, authorization |-> apiKey,
   instructions |-> instructions, data |-> data, files |-> files, timeout |-> NoTimeout]

\* a client that sends a failed request a second time
axiosRequest_Retry(w, resp) ==
  IF resp.outcome = "ok" THEN Ret(w, resp.body)
  ELSE Throw([Touch(w, "http", EmptyStr) EXCEPT !.requests = Append(@, @[Len(@)])],
             IF resp.outcome = "httpError" THEN AxiosResponseError(resp.body)
             ELSE AxiosNetworkError)

\* axios.request: the exchange ends as the remote side decides
axiosRequest(w, resp) ==
  IF resp.outcome = "ok" THEN Ret(w, resp.body)
  ELSE IF resp.outcome = "httpError" THEN Throw(w, AxiosResponseError(resp.body))
  ELSE Throw(w, AxiosNetworkError)

\* a client that sends the request with whatever key there is
callNutrientApi_NoKeyCheck(w, request, resp) ==
  axiosRequest([Touch(w, "http", EmptyStr) EXCEPT !.requests = Append(@, request)], resp)

\* callNutrientApi(endpoint, data): getApiKey throws before anything is sent
callNutrientApi(w, request, resp) ==
  IF apiKey = EmptyStr
    THEN Throw(w, PlainError(Lit("NUTRIENT_DWS_API_KEY not set in environment")))
  ELSE axiosRequest([Touch(w, "http", EmptyStr) EXCEPT !.requests = Append(@, request)], resp)

fileResponseWritten(wr, resolvedOutputPath, successMessage) ==
  IF wr.threw THEN Done(wr.w, Rejected(wr.err))
  ELSE Done(wr.w, createSuccessResponse(successMessage \o Lit(" and saved to: ")
                                        \o StrTok(resolvedOutputPath)))

fileResponseMkdir(mk, resolvedOutputPath, successMessage) ==
  IF mk.threw THEN Done(mk.w, Rejected(mk.err))
  ELSE fileResponseWritten(FsWriteFile(mk.w, resolvedOutputPath, "resp"),
                           resolvedOutputPath, successMessage)

fileResponseAccess(ac, resolvedOutputPath, successMessage) ==
  IF ac.threw
    THEN fileResponseMkdir(FsMkdirRecursive(ac.w, PathDirname(resolvedOutputPath)),
                           resolvedOutputPath, successMessage)
  ELSE fileResponseWritten(FsWriteFile(ac.w, resolvedOutputPath, "resp"),
                           resolvedOutputPath, successMessage)

\* a handler that saves the response under the name of the output file in
\* the working directory
handleFileResponse_InCwd(w, body, resolvedOutputPath, successMessage) ==
  IF body.stream = "error" THEN Done(w, Rejected(StreamError))
  ELSE fileResponseWritten(FsWriteFile(w, PathResolve(PathBasename(resolvedOutputPath)), "resp"),
                           resolvedOutputPath, successMessage)

\* handleFileResponse: nothing in it is caught, a failure rejects its promise
handleFileResponse(w, body, resolvedOutputPath, successMessage) ==
  IF body.stream = "error" THEN Done(w, Rejected(StreamError))
  ELSE fileResponseAccess(FsAccess(w, PathDirname(resolvedOutputPath)),
                          resolvedOutputPath, successMessage)

handleJsonContentResponse(w, body) ==
  IF body.stream = "error" THEN Done(w, Rejected(StreamError))
  ELSE Done(w, createSuccessResponse(RawTok(body)))

(* ------------------------------------------------------------------ *)
(* src/dws/build.ts                                                     *)
(* ------------------------------------------------------------------ *)

Http == << "h", "t", "t", "p", ":", "/", "/" >>

Https == << "h", "t", "t", "p", "s", ":", "/", "/" >>

\* fileName.replace(/[^a-zA-Z0-9]/g, '_')
fileKey(fileName) ==
  [i \in 1..Len(fileName) |-> IF fileName[i] \in AlphaNumeric THEN fileName[i] ELSE "_"]

UrlReference(reference) ==
  [key |-> reference, name |-> reference, url |-> reference,
   hasFile |-> FALSE, buffer |-> "-", path |-> EmptyStr]

LocalReference(resolvedPath, fileBuffer) ==
  [key |-> fileKey(PathBasename(resolvedPath)), name |-> PathBasename(resolvedPath),
   url |-> EmptyStr, hasFile |-> TRUE, buffer |-> fileBuffer, path |-> resolvedPath]

\* an error that names the resolved error only
ReferencedFileError_NoReference(reference, error) ==
  PlainError(Lit("Error with referenced file ") \o Lit(": ") \o error.message)

ReferencedFileError(reference, error) ==
  PlainError(Lit("Error with referenced file ") \o StrTok(reference) \o Lit(": ")
             \o error.message)

referenceRead(rd, resolvedPath, reference) ==
  IF rd.threw THEN Throw(rd.w, ReferencedFileError(reference, rd.err))
  ELSE Ret(rd.w, LocalReference(resolvedPath, rd.val))

referenceResolved(r, reference) ==
  IF r.threw THEN Throw(r.w, ReferencedFileError(reference, r.err))
  ELSE referenceRead(FsReadFile(r.w, r.val), r.val, reference)

processFileReference(w, reference) ==
  IF StartsWith(reference, Http) \/ StartsWith(reference, Https)
    THEN Ret(w, UrlReference(reference))
  ELSE referenceResolved(resolveReadFilePath(w, reference), reference)

\* a Map that takes every entry as a new one
MapSet_Append(fileReferences, fileReference) == Append(fileReferences, fileReference)

\* Map.prototype.set: a Map keeps its entries in insertion order, and a
\* key it already holds keeps its place and takes the new value
MapSet(fileReferences, fileReference) ==
  IF \E i \in 1..Len(fileReferences) : fileReferences[i].key = fileReference.key
    THEN [i \in 1..Len(fileReferences) |->
            IF fileReferences[i].key = fileReference.key THEN fileReference
            ELSE fileReferences[i]]
  ELSE Append(fileReferences, fileReference)

\* the state of processInstructions before its loops
Collecting(w, instructions) ==
  [w |-> w, threw |-> FALSE, err |-> NoError,
   instructions |-> instructions, fileReferences |-> << >>]

partProcessed(st, i, r) ==
  IF r.threw THEN [st EXCEPT !.w = r.w, !.threw = TRUE, !.err = r.err]
  ELSE [st EXCEPT !.w = r.w, !.instructions.parts[i].file = r.val.key,
                  !.fileReferences = MapSet(@, r.val)]

\* the body of the loop over the parts
processPart(st, i) ==
  IF st.instructions.parts[i].file = EmptyStr THEN st
  ELSE partProcessed(st, i, processFileReference(st.w, st.instructions.parts[i].file))

RECURSIVE processParts(_, _)

processParts(st, i) ==
  IF st.threw \/ i > Len(st.instructions.parts) THEN st
  ELSE processParts(processPart(st, i), i + 1)

\* the conditions of processActionFileReferences: an image that is set and
\* not empty on a watermark, a file that is a string on the other two
hasFileReference(action) ==
  \/ action.type = "watermark" /\ action.given /\ action.ref # EmptyStr
  \/ action.type \in {"applyXfdf", "applyInstantJson"} /\ action.given

\* a loop over the actions that leaves out an action whose file failed
actionProcessed_SkipFailed(st, i, r) ==
  IF r.threw THEN [st EXCEPT !.w = r.w]
  ELSE [st EXCEPT !.w = r.w, !.instructions.actions[i].ref = r.val.key,
                  !.fileReferences = MapSet(@, r.val)]

actionProcessed(st, i, r) ==
  IF r.threw THEN [st EXCEPT !.w = r.w, !.threw = TRUE, !.err = r.err]
  ELSE [st EXCEPT !.w = r.w, !.instructions.actions[i].ref = r.val.key,
                  !.fileReferences = MapSet(@, r.val)]

\* the body of the loop over the actions
processActionFileReferences(st, i) ==
  IF hasFileReference(st.instructions.actions[i])
    THEN actionProcessed(st, i, processFileReference(st.w, st.instructions.actions[i].ref))
  ELSE st

RECURSIVE processActions(_, _)

processActions(st, i) ==
  IF st.threw \/ i > Len(st.instructions.actions) THEN st
  ELSE processActions(processActionFileReferences(st, i), i + 1)

processInstructions(w, instructions) ==
  processActions(processParts(Collecting(w, instructions), 1), 1)

\* fileRef.url of every entry is set
allInputsAreUrls(fileReferences) ==
  \A i \in 1..Len(fileReferences) : fileReferences[i].url # EmptyStr

\* a form that takes a field for every entry of the Map, URLs included
FileFields_EveryEntry(fileReferences, i) ==
  [k \in 1..Len(fileReferences) |->
     [name |-> fileReferences[k].key, filename |-> fileReferences[k].name,
      buffer |-> fileReferences[k].buffer]]

\* the file fields appended to the form while iterating over the Map
RECURSIVE FileFields(_, _)

FileFields(fileReferences, i) ==
  IF i > Len(fileReferences) THEN << >>
  ELSE IF fileReferences[i].hasFile
    THEN << [name |-> fileReferences[i].key, filename |-> fileReferences[i].name,
             buffer |-> fileReferences[i].buffer] >> \o FileFields(fileReferences, i + 1)
  ELSE FileFields(fileReferences, i + 1)

\* the transport under which every request goes out as a form
BuildRequest_AlwaysForm(instructions, fileReferences) ==
  Request("build", "multipart/form-data", instructions, "-", FileFields(fileReferences, 1))

BuildRequest(instructions, fileReferences) ==
  IF allInputsAreUrls(fileReferences)
    THEN Request("build", "application/json", instructions, "-", << >>)
  ELSE Request("build", "multipart/form-data", instructions, "-",
               FileFields(fileReferences, 1))

makeApiBuildCall(w, instructions, fileReferences, resp) ==
  callNutrientApi(w, BuildRequest(instructions, fileReferences), resp)

\* a build that saves every response as a file
buildResponded_AlwaysFile(rs, st, resolvedOutputPath) ==
  IF rs.threw THEN Done(rs.w, handleApiError(rs.err))
  ELSE handleFileResponse(rs.w, rs.val, resolvedOutputPath,
                          Lit("File processed successfully using build API"))

buildResponded(rs, st, resolvedOutputPath) ==
  IF rs.threw THEN Done(rs.w, handleApiError(rs.err))
  ELSE IF st.instructions.output = "json-content" THEN handleJsonContentResponse(rs.w, rs.val)
  ELSE handleFileResponse(rs.w, rs.val, resolvedOutputPath,
                          Lit("File processed successfully using build API"))

buildResolved(rw, st, resp) ==
  IF rw.threw THEN Done(rw.w, handleApiError(rw.err))
  ELSE buildResponded(makeApiBuildCall(rw.w, st.instructions, st.fileReferences, resp),
                      st, rw.val)

\* the empty map short-circuits even when no file field was found
buildCollected_NoShortCircuit(st, outputFilePath, resp) ==
  IF st.threw THEN Done(st.w, Rejected(st.err))
  ELSE buildResolved(resolveWriteFilePath(st.w, outputFilePath), st, resp)

\* processInstructions is awaited outside the try block: what it throws
\* rejects the promise of performBuildCall
buildCollected(st, outputFilePath, resp) ==
  IF st.threw THEN Done(st.w, Rejected(st.err))
  ELSE IF Len(st.fileReferences) = 0
    THEN Done(st.w, createErrorResponse(
                      Lit("Error: No valid files or urls found in instructions")))
  ELSE buildResolved(resolveWriteFilePath(st.w, outputFilePath), st, resp)

performBuildCall(w, instructions, outputFilePath, resp) ==
  buildCollected(processInstructions(w, instructions), outputFilePath, resp)

(* ------------------------------------------------------------------ *)
(* src/dws/sign.ts                                                      *)
(* ------------------------------------------------------------------ *)

FieldFile == << "f", "i", "l", "e" >>

FieldWatermark == << "w", "a", "t", "e", "r", "m", "a", "r", "k" >>

FieldGraphic == << "g", "r", "a", "p", "h", "i", "c" >>

FieldImageError(fieldName, error) ==
  PlainError(Lit("Error with ") \o StrTok(fieldName) \o Lit(" image: ") \o error.message)

formFileRead(rd, formData, fieldName, validatedPath) ==
  IF rd.threw THEN Throw(rd.w, FieldImageError(fieldName, rd.err))
  ELSE Ret(rd.w, Append(formData, [name |-> fieldName, filename |-> PathBasename(validatedPath),
                                   buffer |-> rd.val]))

formFileResolved(r, formData, fieldName) ==
  IF r.threw THEN Throw(r.w, FieldImageError(fieldName, r.err))
  ELSE formFileRead(FsReadFile(r.w, r.val), formData, fieldName, r.val)

\* the value is the form with the file appended
addFileToFormData(w, formData, fieldName, filePath) ==
  formFileResolved(resolveReadFilePath(w, filePath), formData, fieldName)

signResponded(rs, resolvedOutputPath) ==
  IF rs.threw THEN Done(rs.w, handleApiError(rs.err))
  ELSE handleFileResponse(rs.w, rs.val, resolvedOutputPath, Lit("File signed successfully"))

signGraphic(fd, resolvedOutputPath, resp) ==
  IF fd.threw THEN Done(fd.w, handleApiError(fd.err))
  ELSE signResponded(callNutrientApi(fd.w,
                       Request("sign", "multipart/form-data", NoInstructions,
                               "signatureOptions", fd.val), resp),
                     resolvedOutputPath)

signWatermark(fd, resolvedOutputPath, graphicImagePath, resp) ==
  IF fd.threw THEN Done(fd.w, handleApiError(fd.err))
  ELSE IF graphicImagePath # EmptyStr
    THEN signGraphic(addFileToFormData(fd.w, fd.val, FieldGraphic, graphicImagePath),
                     resolvedOutputPath, resp)
  ELSE signGraphic(fd, resolvedOutputPath, resp)

signFile(fd, resolvedOutputPath, watermarkImagePath, graphicImagePath, resp) ==
  IF fd.threw THEN Done(fd.w, handleApiError(fd.err))
  ELSE IF watermarkImagePath # EmptyStr
    THEN signWatermark(addFileToFormData(fd.w, fd.val, FieldWatermark, watermarkImagePath),
                       resolvedOutputPath, graphicImagePath, resp)
  ELSE signWatermark(fd, resolvedOutputPath, graphicImagePath, resp)

signResolved(rw, filePath, watermarkImagePath, graphicImagePath, resp) ==
  IF rw.threw THEN Done(rw.w, handleApiError(rw.err))
  ELSE signFile(addFileToFormData(rw.w, << >>, FieldFile, filePath), rw.val,
                watermarkImagePath, graphicImagePath, resp)

performSignCall(w, filePath, outputFilePath, watermarkImagePath, graphicImagePath, resp) ==
  signResolved(resolveWriteFilePath(w, outputFilePath), filePath,
               watermarkImagePath, graphicImagePath, resp)

(* ------------------------------------------------------------------ *)
(* src/dws/ai-redact.ts                                                 *)
(* ------------------------------------------------------------------ *)

FieldFile1 == << "f", "i", "l", "e", "1" >>

redactionState(stage, apply) == IF stage THEN "stage" ELSE IF apply THEN "apply" ELSE "none"

redactResponded(rs, resolvedOutputPath) ==
  IF rs.threw THEN Done(rs.w, handleApiError(rs.err))
  ELSE handleFileResponse(rs.w, rs.val, resolvedOutputPath,
                          Lit("AI redaction completed successfully. Output saved to"))

redactRead(rd, resolvedInputPath, resolvedOutputPath, stage, apply, resp) ==
  IF rd.threw THEN Done(rd.w, handleApiError(rd.err))
  ELSE redactResponded(
         callNutrientApi(rd.w,
           Request("ai/redact", "multipart/form-data", NoInstructions,
                   redactionState(stage, apply),
                   << [name |-> FieldFile1, filename |-> PathBasename(resolvedInputPath),
                       buffer |-> rd.val] >>),
           resp),
         resolvedOutputPath)

\* the checks without the comparison of the two resolved paths
redactChecked_NoGuard(ac, filePath, resolvedInputPath, resolvedOutputPath, stage, apply, resp) ==
  IF ac.threw
    THEN Done(ac.w, createErrorResponse(Lit("Error: Input file not found or not readable: ")
                                        \o StrTok(filePath)))
  ELSE IF stage /\ apply
    THEN Done(ac.w, createErrorResponse(
                      Lit("Error: stage and apply cannot both be true. Choose one mode.")))
  ELSE redactRead(FsReadFile(ac.w, resolvedInputPath), resolvedInputPath, resolvedOutputPath,
                  stage, apply, resp)

\* the checks of the arguments come after the paths are resolved and the
\* input file is probed
redactChecked(ac, filePath, resolvedInputPath, resolvedOutputPath, stage, apply, resp) ==
  IF ac.threw
    THEN Done(ac.w, createErrorResponse(Lit("Error: Input file not found or not readable: ")
                                        \o StrTok(filePath)))
  ELSE IF stage /\ apply
    THEN Done(ac.w, createErrorResponse(
                      Lit("Error: stage and apply cannot both be true. Choose one mode.")))
  ELSE IF PathResolve(resolvedInputPath) = PathResolve(resolvedOutputPath)
    THEN Done(ac.w, createErrorResponse(
           Lit("Error: Output path must be different from input path to prevent data corruption.")))
  ELSE redactRead(FsReadFile(ac.w, resolvedInputPath), resolvedInputPath, resolvedOutputPath,
                  stage, apply, resp)

redactOutputResolved(rw, filePath, resolvedInputPath, stage, apply, resp) ==
  IF rw.threw THEN Done(rw.w, handleApiError(rw.err))
  ELSE redactChecked(FsAccessRead(rw.w, resolvedInputPath), filePath, resolvedInputPath,
                     rw.val, stage, apply, resp)

redactInputResolved(r, filePath, outputPath, stage, apply, resp) ==
  IF r.threw THEN Done(r.w, handleApiError(r.err))
  ELSE redactOutputResolved(resolveWriteFilePath(r.w, outputPath), filePath, r.val,
                            stage, apply, resp)

performAiRedactCall(w, filePath, outputPath, stage, apply, resp) ==
  redactInputResolved(resolveReadFilePath(w, filePath), filePath, outputPath,
                      stage, apply, resp)

(* ------------------------------------------------------------------ *)
(* The API client that logs credit usage (src/unnamed/part_009) with    *)
(* its store, src/credits/storage.ts, and the AI redaction that calls   *)
(* it with a timeout (src/unnamed/part_007)                             *)
(* ------------------------------------------------------------------ *)

\* a header of a response: its type ("undefined" when absent) and, for a
\* string, its text
Header(type, text) == [type |-> type, text |-> text]

DigitChars == << "0", "1", "2", "3", "4", "5", "6", "7", "8", "9" >>

DigitValue(c) == (CHOOSE i \in DOMAIN DigitChars : DigitChars[i] = c) - 1

RECURSIVE DecimalValue(_)

DecimalValue(text) ==
  IF Len(text) = 0 THEN 0
  ELSE 10 * DecimalValue(SubSeq(text, 1, Len(text) - 1)) + DigitValue(text[Len(text)])

\* Number(text) under Number.isFinite: the empty string converts to 0, a
\* string of digits to its value, any other text to NaN
NumberOf(text) ==
  IF \A i \in DOMAIN text : \E k \in DOMAIN DigitChars : DigitChars[k] = text[i]
    THEN [finite |-> TRUE, value |-> DecimalValue(text)]
  ELSE [finite |-> FALSE, value |-> 0]

\* typeof raw === 'string' ? Number(raw) : null, then Number.isFinite
HeaderNumber(header) ==
  IF header.type = "string" THEN NumberOf(header.text) ELSE [finite |-> FALSE, value |-> 0]

\* present is false for the null result; hasRemaining is false for a null
\* remainingCredits
extractCreditHeaders(headers) ==
  [present |-> HeaderNumber(headers.usage).finite,
   requestCost |-> HeaderNumber(headers.usage).value,
   hasRemaining |-> HeaderNumber(headers.remaining).finite,
   remainingCredits |-> HeaderNumber(headers.remaining).value]

\* a build sends the instructions themselves or a form: neither has a
\* field 'instructions', so no build is classified further
classifyOperation(endpoint) ==
  IF endpoint = "ai/redact" THEN "ai-redact"
  ELSE IF endpoint = "sign" THEN "sign"
  ELSE IF endpoint = "analyze_build" THEN "estimate"
  ELSE "build-unknown"

\* the database file, in the data directory of the user
getDbPath == << "/", "w", "/", "c" >>

\* new Database(dbPath) once the directory is there: the file of the rows
getDbOpened(mk) ==
  IF mk.threw THEN mk
  ELSE IF IsDir(mk.w.fs, getDbPath)
    THEN Throw(mk.w, PlainError(Lit("unable to open database file")))
  ELSE IF IsFile(mk.w.fs, getDbPath) THEN Ret(mk.w, getDbPath)
  ELSE IF ~Writable(mk.w.fs, PathDirname(getDbPath))
    THEN Throw(mk.w, PlainError(Lit("unable to open database file")))
  ELSE Ret([mk.w EXCEPT !.fs = (getDbPath :> FileEntry("rw", << >>)) @@ @], getDbPath)

getDb(w) == getDbOpened(FsMkdirRecursive(w, PathDirname(getDbPath)))

\* _insertStmt.run(params)
logUsageInserted(db, params) ==
  IF db.threw THEN db
  ELSE IF ~Writable(db.w.fs, getDbPath)
    THEN Throw(db.w, PlainError(Lit("attempt to write a readonly database")))
  ELSE Ret([db.w EXCEPT !.fs[getDbPath].data = Append(@, params)], EmptyStr)

logUsage(w, params) == logUsageInserted(getDb(w), params)

\* a logger that lets the error of the store through
logCreditUsageLogged_Rethrow(lg) == lg

\* catch { }: whatever the store throws ends here
logCreditUsageLogged(lg) == Ret(lg.w, EmptyStr)

logCreditUsageExtracted(w, h, endpoint) ==
  IF ~h.present THEN Ret(w, EmptyStr)
  ELSE logCreditUsageLogged(
         logUsage(w, [operation |-> classifyOperation(endpoint),
                      requestCost |-> h.requestCost,
                      hasRemaining |-> h.hasRemaining,
                      remainingCredits |-> h.remainingCredits]))

logCreditUsage(w, headers, endpoint) ==
  logCreditUsageExtracted(w, extractCreditHeaders(headers), endpoint)

\* return response, after the logger returned
callLogged(lg, body) == IF lg.threw THEN lg ELSE Ret(lg.w, body)

callPosted(rs, resp, endpoint) ==
  IF rs.threw THEN rs
  ELSE callLogged(logCreditUsage(rs.w, resp.headers, endpoint), rs.val)

\* callNutrientApi(endpoint, data, options) of part_009
callNutrientApiLogging(w, request, options, resp) ==
  IF apiKey = EmptyStr
    THEN Throw(w, PlainError(Lit("NUTRIENT_DWS_API_KEY not set in environment")))
  ELSE callPosted(
         axiosRequest([Touch(w, "http", EmptyStr)
                         EXCEPT !.requests = Append(@, [request EXCEPT !.timeout = options])],
                      resp),
         resp, request.endpoint)

\* five minutes, in milliseconds
FiveMinutes == 300000

timedRedactRead(rd, resolvedInputPath, resolvedOutputPath, resp) ==
  IF rd.threw THEN Done(rd.w, handleApiError(rd.err))
  ELSE redactResponded(
         callNutrientApiLogging(rd.w,
           Request("ai/redact", "multipart/form-data", NoInstructions, "none",
                   << [name |-> FieldFile1, filename |-> PathBasename(resolvedInputPath),
                       buffer |-> rd.val] >>),
           FiveMinutes, resp),
         resolvedOutputPath)

timedRedactChecked(ac, filePath, resolvedInputPath, resolvedOutputPath, resp) ==
  IF ac.threw
    THEN Done(ac.w, createErrorResponse(Lit("Error: Input file not found or not readable: ")
                                        \o StrTok(filePath)))
  ELSE timedRedactRead(FsReadFile(ac.w, resolvedInputPath), resolvedInputPath,
                       resolvedOutputPath, resp)

timedRedactOutputResolved(rw, filePath, resolvedInputPath, resp) ==
  IF rw.threw THEN Done(rw.w, handleApiError(rw.err))
  ELSE timedRedactChecked(FsAccessRead(rw.w, resolvedInputPath), filePath, resolvedInputPath,
                          rw.val, resp)

timedRedactInputResolved(r, filePath, outputPath, resp) ==
  IF r.threw THEN Done(r.w, handleApiError(r.err))
  ELSE timedRedactOutputResolved(resolveWriteFilePath(r.w, outputPath), filePath, r.val, resp)

\* performAiRedactCall(filePath, criteria, outputPath) of part_007
performTimedAiRedactCall(w, filePath, outputPath, resp) ==
  timedRedactInputResolved(resolveReadFilePath(w, filePath), filePath, outputPath, resp)

(* ------------------------------------------------------------------ *)
(* src/fs/directoryTree.ts                                              *)
(* ------------------------------------------------------------------ *)

\* sandbox.ts:70-74
readDirectoryStat(p, st) ==
  IF st.threw THEN st
  ELSE IF st.val # "dir"
    THEN Throw(st.w, PlainError(Lit("Path is not a directory: ") \o StrTok(p)))
  ELSE Ret(st.w, p)

readDirectoryResolved(r) == IF r.threw THEN r ELSE readDirectoryStat(r.val, FsStat(r.w, r.val))

\* sandbox.ts:68-75
resolveReadDirectoryPath(w, dirPath) == readDirectoryResolved(resolvePath(w, dirPath))

\* fs.promises.open(p, 'r'); the value is the handle, known by its path
FsOpenRead(w, p) ==
  IF ~Exists(w.fs, p)
    THEN Throw(Touch(w, "open", p), FsError("ENOENT: no such file or directory, open ", p))
  ELSE IF ~Readable(w.fs, p)
    THEN Throw(Touch(w, "open", p), FsError("EACCES: permission denied, open ", p))
  ELSE Ret(Touch(w, "open", p), p)

\* fs.close(fd): the descriptor is closed, the handle is not told
FsCloseDescriptor(w, p) == Touch(w, "fs.close", p)

RECURSIVE SetToSeq(_)

SetToSeq(S) ==
  IF S = {} THEN << >>
  ELSE << CHOOSE x \in S : TRUE >> \o SetToSeq(S \ {CHOOSE x \in S : TRUE})

\* the entries of a directory (withFileTypes), in the order readdir gives
Dirents(fs, p) == SetToSeq({q \in DOMAIN fs : q # p /\ PathDirname(q) = p})

TreeEntry(name, p, type, children) ==
  [name |-> name, path |-> p, type |-> type, children |-> children]

\* null
NoTreeEntry == TreeEntry(EmptyStr, EmptyStr, "null", << >>)

Built(w, tree) == [w |-> w, tree |-> tree]

\* directoryTree.ts:47-53
treeFileOpened(fd, subPath) ==
  IF fd.threw THEN Built(fd.w, NoTreeEntry)
  ELSE Built(FsCloseDescriptor(fd.w, fd.val),
             TreeEntry(PathBasename(subPath), subPath, "file", << >>))

\* the order in which the callbacks of entries.map complete: schedule[i] is
\* the rank of the callback of the i-th entry, and of those still pending
\* the one of least rank completes next
NextCompleted(pending, schedule) ==
  CHOOSE i \in pending : \A k \in pending : schedule[i] <= schedule[k]

\* a Promise.all that gives the results in the order of completion
treeEntryBuilt_AsCompleted(st, i, e) ==
  [w |-> e.w, results |-> Append(Tail(st.results), e.tree)]

\* directoryTree.ts:62, the callback of the i-th entry returns: its result
\* settles the i-th of the promises
treeEntryBuilt(st, i, e) == [w |-> e.w, results |-> [st.results EXCEPT ![i] = e.tree]]

\* directoryTree.ts:66-73: Promise.all gives the results in the order of the
\* promises, and results.filter((res) => res !== null) drops the nulls
treeCollected(st, name, directoryPath) ==
  Built(st.w, TreeEntry(name, directoryPath, "directory",
                        SelectSeq(st.results, LAMBDA res : res # NoTreeEntry)))

RECURSIVE buildDirectoryTree(_, _, _, _)

RECURSIVE treeEntries(_, _, _, _)

\* directoryTree.ts:41-62, the callback of entries.map for the entry subPath
treeEntry(w, subPath, schedule) ==
  IF IsDir(w.fs, subPath)
    THEN buildDirectoryTree(w, PathBasename(subPath), subPath, schedule)
  ELSE IF IsFile(w.fs, subPath) THEN treeFileOpened(FsOpenRead(w, subPath), subPath)
  ELSE Built(w, NoTreeEntry)

\* directoryTree.ts:40-66, the callbacks still pending complete one after
\* the other in the order of the schedule
treeEntries(st, entries, pending, schedule) ==
  IF pending = {} THEN st
  ELSE treeEntries(treeEntryBuilt(st, NextCompleted(pending, schedule),
                                  treeEntry(st.w, entries[NextCompleted(pending, schedule)],
                                            schedule)),
                   entries, pending \ {NextCompleted(pending, schedule)}, schedule)

treeListed(rd, name, directoryPath, schedule) ==
  IF rd.threw THEN Built(rd.w, NoTreeEntry)
  ELSE treeCollected(treeEntries([w |-> rd.w,
                                  results |-> [i \in 1..Len(Dirents(rd.w.fs, directoryPath)) |->
                                                 NoTreeEntry]],
                                 Dirents(rd.w.fs, directoryPath),
                                 1..Len(Dirents(rd.w.fs, directoryPath)), schedule),
                     name, directoryPath)

\* directoryTree.ts:38-79
buildDirectoryTree(w, name, directoryPath, schedule) ==
  treeListed(FsReaddir(w, directoryPath), name, directoryPath, schedule)

treeBuilt(t, validPath) ==
  IF t.tree.type # "null" THEN Done(t.w, createSuccessResponse(JsonTok(t.tree.children)))
  ELSE Done(t.w, createErrorResponse(
         Lit("Cannot read the directory tree, make sure to allow this application access to ")
         \o StrTok(validPath)))

treeResolved(r, schedule) ==
  IF r.threw THEN Done(r.w, createErrorResponse(Lit("Error: ") \o r.err.message))
  ELSE treeBuilt(buildDirectoryTree(r.w, << "r", "o", "o", "t" >>, r.val, schedule), r.val)

\* directoryTree.ts:20-33
performDirectoryTreeCall(w, directoryPath, schedule) ==
  treeResolved(resolveReadDirectoryPath(w, directoryPath), schedule)

(* ------------------------------------------------------------------ *)
(* The tool handlers of src/index.ts                                    *)
(* ------------------------------------------------------------------ *)

\* try { return performXCall(...) } catch (error) { ... }: the promise is
\* returned without await, so the handler's promise takes its outcome, a
\* rejection included; the catch clause runs only for an exception thrown
\* before a promise exists, and an async function throws none
toolHandler(promise) == promise

(* ------------------------------------------------------------------ *)
(* Inputs                                                               *)
(* ------------------------------------------------------------------ *)

\* the segments path strings are enumerated from: empty (a doubled or
\* trailing slash), ".", "..", a name that begins with two dots, the
\* sandbox's own name and an ordinary name
SegAlphabet == {EmptyStr, Dot, DotDot, << ".", ".", "a" >>, << "s" >>, << "a" >>}

\* every relative and absolute path string of at most MaxSegs segments
PathStrings ==
  UNION {{JoinSegs(q) : q \in [1..k -> SegAlphabet]}
           \cup {<< "/" >> \o JoinSegs(q) : q \in [1..k -> SegAlphabet]} : k \in 0..MaxSegs}

\* the directory the server is started with: --sandbox /s
SandboxRoot == << "/", "s" >>

\* arguments of setSandboxDirectory: null, an existing directory, a relative
\* name of a missing directory (resolved against the working directory)
\* and an existing file
SandboxArgs == {EmptyStr, SandboxRoot, << "s" >>, << "/", "s", "/", "a" >>}

\* the filesystem at start: /s with a file a and a read-only file ..a in
\* it, the working directory /w, and outside /s a file /a of another
\* content and a file /..a that its owner may write but not read (mode 0200)
InitialFs ==
  (<< "/" >> :> DirEntry("rw")) @@ (SandboxRoot :> DirEntry("rw"))
  @@ (<< "/", "w" >> :> DirEntry("rw"))
  @@ (<< "/", "s", "/", "a" >> :> FileEntry("rw", "orig"))
  @@ (<< "/", "s", "/", ".", ".", "a" >> :> FileEntry("ro", "orig"))
  @@ (<< "/", "a" >> :> FileEntry("rw", "outer"))
  @@ (<< "/", ".", ".", "a" >> :> FileEntry("wo", "orig"))

(* ------------------------------------------------------------------ *)
(* The path resolver called directly (as the unit tests do)             *)
(* ------------------------------------------------------------------ *)

InitPath ==
  /\ sandboxDirectory = EmptyStr
  /\ apiKey = EmptyStr
  /\ fsys = InitialFs
  /\ pc = "idle"
  /\ op = "none"
  /\ args = NoArgs
  /\ result = NoResult
  /\ trace = << >>
  /\ requests = << >>
  /\ calls = << >>

\* a call of a path function completes with outcome r
PathCallDone(name, pathStr, r) ==
  /\ pc' = "done"
  /\ op' = name
  /\ args' = [NoArgs EXCEPT !.path = pathStr]
  /\ fsys' = r.w.fs
  /\ trace' = r.w.trace
  /\ result' = Settle(r)
  /\ UNCHANGED << apiKey, requests, calls >>

\* a call of setSandboxDirectory(directory)
SetSandboxDirectoryCall ==
  \E directory \in SandboxArgs :
    /\ pc = "idle"
    /\ PathCallDone("setSandboxDirectory", directory, setSandboxDirectory(World, directory))
    /\ sandboxDirectory' = IF result'.settled = "fulfilled" THEN result'.value
                           ELSE sandboxDirectory

\* a call of resolveReadFilePath(filePath)
ResolveReadFilePathCall ==
  \E filePath \in PathStrings :
    /\ pc = "idle"
    /\ PathCallDone("resolveReadFilePath", filePath, resolveReadFilePath(World, filePath))
    /\ UNCHANGED sandboxDirectory

\* a call of resolveWriteFilePath(filePath)
ResolveWriteFilePathCall ==
  \E filePath \in PathStrings :
    /\ pc = "idle"
    /\ PathCallDone("resolveWriteFilePath", filePath, resolveWriteFilePath(World, filePath))
    /\ UNCHANGED sandboxDirectory

\* the caller takes the result; the next call may start
Return ==
  /\ pc = "done"
  /\ pc' = "idle"
  /\ op' = "none"
  /\ args' = NoArgs
  /\ result' = NoResult
  /\ trace' = << >>
  /\ requests' = << >>
  /\ UNCHANGED << sandboxDirectory, apiKey, fsys, calls >>

NextPath ==
  \/ SetSandboxDirectoryCall
  \/ ResolveReadFilePathCall
  \/ ResolveWriteFilePathCall
  \/ Return

SpecPath == InitPath /\ [][NextPath]_vars

(* ------------------------------------------------------------------ *)
(* The tools called on a started server                                 *)
(* ------------------------------------------------------------------ *)

UrlDoc == Http \o << "u" >>

FileA == << "/", "s", "/", "a" >>

FileDotDotA == << "/", "s", "/", ".", ".", "a" >>

\* the file of a part: none, the file /s/a, a URL, and a relative name
\* that no file has
PartFiles == {EmptyStr, FileA, UrlDoc, << "m" >>}

PartSeqs == UNION {[1..k -> [file : PartFiles]] : k \in 0..MaxParts}

Action(type, given, ref) == [type |-> type, given |-> given, ref |-> ref]

\* no action, a watermark with a local image, a text watermark, XFDF
\* from a URL, and a watermark whose image is a missing file
ActionSeqs ==
  {<< >>, << Action("watermark", TRUE, FileA) >>, << Action("watermark", FALSE, EmptyStr) >>,
   << Action("applyXfdf", TRUE, Https \o << "x" >>) >>,
   << Action("watermark", TRUE, << "m" >>) >>}

InstructionGraphs == [parts : PartSeqs, actions : ActionSeqs, output : {"pdf", "json-content"}]

\* output paths: a new file in /s, and a new file in a new directory
\* named by a relative string
OutputPaths == {<< "/", "s", "/", "o" >>, << "n", "/", "o" >>}

Body(json, details, status, requestId, failingPaths, stream) ==
  [json |-> json, details |-> details, status |-> status, requestId |-> requestId,
   failingPaths |-> failingPaths, stream |-> stream]

Response(outcome, body) == [outcome |-> outcome, body |-> body]

\* the document of a successful response
DocumentBody == Body("document", "absent", "absent", "absent", "absent", "ok")

\* what the remote side may answer to a tool's request: the document, a
\* document whose stream breaks, a hosted error, an error in plain text,
\* and nothing at all
ToolResponses ==
  {Response("ok", DocumentBody), Response("ok", [DocumentBody EXCEPT !.stream = "error"]),
   Response("httpError", Body("object", "truthy", "truthy", "truthy", "truthy", "ok")),
   Response("httpError", Body("invalid", "absent", "absent", "absent", "absent", "ok")),
   Response("noResponse", NoBody)}

\* the bodies of failed responses: text that is no JSON, the JSON null, a
\* JSON scalar, and objects with each of the four fields absent, present
\* with a value that converts to false, or present with one that converts
\* to true; the stream of each may break
ErrorBodies ==
  {Body(json, "absent", "absent", "absent", "absent", stream) :
     json \in {"invalid", "null", "scalar"}, stream \in {"ok", "error"}}
  \cup [json : {"object"}, details : {"absent", "falsy", "truthy"},
        status : {"absent", "falsy", "truthy"}, requestId : {"absent", "falsy", "truthy"},
        failingPaths : {"absent", "falsy", "truthy"}, stream : {"ok", "error"}]

InitTools ==
  /\ sandboxDirectory \in {EmptyStr, SandboxRoot}
  /\ apiKey \in {EmptyStr, << "k" >>}
  /\ fsys = InitialFs
  /\ pc = "idle"
  /\ op = "none"
  /\ args = NoArgs
  /\ result = NoResult
  /\ trace = << >>
  /\ requests = << >>
  /\ calls = << >>

\* a tool call with arguments a completes as d; the response is part of
\* the call only when a request went out
ToolCallDone(name, a, d) ==
  /\ pc' = "done"
  /\ op' = name
  /\ args' = IF Len(d.w.requests) = 0 THEN [a EXCEPT !.response = NoResponse] ELSE a
  /\ fsys' = d.w.fs
  /\ trace' = d.w.trace
  /\ requests' = d.w.requests
  /\ result' = toolHandler(d.promise)
  /\ UNCHANGED << sandboxDirectory, apiKey, calls >>

\* the document_processor tool
DocumentProcessorCall ==
  \E instructions \in InstructionGraphs, outputPath \in OutputPaths, resp \in ToolResponses :
    /\ pc = "idle"
    /\ ToolCallDone("performBuildCall",
                    [NoArgs EXCEPT !.instructions = instructions, !.out = outputPath,
                                   !.response = resp],
                    performBuildCall(World, instructions, outputPath, resp))

\* the document_signer tool
DocumentSignerCall ==
  \E filePath \in {<< "a" >>, FileA, << "m" >>}, outputPath \in OutputPaths,
     watermarkImagePath \in {EmptyStr, FileA, UrlDoc}, graphicImagePath \in {EmptyStr, << "m" >>},
     resp \in ToolResponses :
    /\ pc = "idle"
    /\ ToolCallDone("performSignCall",
                    [NoArgs EXCEPT !.path = filePath, !.out = outputPath,
                                   !.watermark = watermarkImagePath,
                                   !.graphic = graphicImagePath, !.response = resp],
                    performSignCall(World, filePath, outputPath, watermarkImagePath,
                                    graphicImagePath, resp))

\* the ai_redactor tool
AiRedactorCall ==
  \E filePath \in {<< "a" >>, FileA, FileDotDotA, << "m" >>},
     outputPath \in {<< "/", "s", "/", "o" >>, << "a" >>, FileA, FileDotDotA},
     stage \in BOOLEAN, apply \in BOOLEAN, resp \in ToolResponses :
    /\ pc = "idle"
    /\ ToolCallDone("performAiRedactCall",
                    [NoArgs EXCEPT !.path = filePath, !.out = outputPath, !.stage = stage,
                                   !.apply = apply, !.response = resp],
                    performAiRedactCall(World, filePath, outputPath, stage, apply, resp))

\* handleApiError called on what a failed request throws
HandleApiErrorCall ==
  \E body \in ErrorBodies :
    /\ pc = "idle"
    /\ pc' = "done"
    /\ op' = "handleApiError"
    /\ args' = [NoArgs EXCEPT !.response = Response("httpError", body)]
    /\ result' = handleApiError(AxiosResponseError(body))
    /\ UNCHANGED << sandboxDirectory, apiKey, fsys, trace, requests, calls >>

\* the document_processor tool called with instructions of at most one part
DocumentProcessorShortCall ==
  \E instructions \in {g \in InstructionGraphs : Len(g.parts) <= 1},
     outputPath \in OutputPaths, resp \in ToolResponses :
    /\ pc = "idle"
    /\ ToolCallDone("performBuildCall",
                    [NoArgs EXCEPT !.instructions = instructions, !.out = outputPath,
                                   !.response = resp],
                    performBuildCall(World, instructions, outputPath, resp))

NextBuild == DocumentProcessorCall \/ Return

\* the three tools that save a response, called in any order
NextOutput == DocumentProcessorShortCall \/ DocumentSignerCall \/ AiRedactorCall \/ Return

SpecOutput == InitTools /\ [][NextOutput]_vars

SpecBuild == InitTools /\ [][NextBuild]_vars

NextSign == DocumentSignerCall \/ Return

SpecSign == InitTools /\ [][NextSign]_vars

NextRedact == AiRedactorCall \/ Return

SpecRedact == InitTools /\ [][NextRedact]_vars

NextError == HandleApiErrorCall \/ Return

SpecError == InitTools /\ [][NextError]_vars

(* ------------------------------------------------------------------ *)
(* The client with credit logging, called directly and by the AI        *)
(* redaction                                                            *)
(* ------------------------------------------------------------------ *)

\* the rows the store may hold before a call is made
MaxRows == 1

\* the credit headers of a response: usage absent, no string, a number,
\* empty or no number; remaining credits absent, a number or no number
CreditHeaders ==
  [usage : {Header("undefined", EmptyStr), Header("array", EmptyStr), Header("string", << "5" >>),
            Header("string", EmptyStr), Header("string", << "x" >>)},
   remaining : {Header("undefined", EmptyStr), Header("string", << "7" >>),
                Header("string", << "x" >>)}]

NoCreditHeaders == [usage |-> Header("undefined", EmptyStr),
                    remaining |-> Header("undefined", EmptyStr)]

\* a document, a document whose stream breaks, and a failure, with headers
CreditResponses ==
  {[outcome |-> r.outcome, body |-> r.body, headers |-> h] :
     r \in {Response("ok", DocumentBody), Response("ok", [DocumentBody EXCEPT !.stream = "error"]),
            Response("httpError", Body("object", "truthy", "truthy", "truthy", "truthy", "ok"))},
     h \in CreditHeaders}

\* the store at start: no database yet, a directory in its place, or a
\* database that cannot be written
InitCredits ==
  /\ sandboxDirectory \in {EmptyStr, SandboxRoot}
  /\ apiKey \in {EmptyStr, << "k" >>}
  /\ fsys \in {InitialFs, (getDbPath :> DirEntry("rw")) @@ InitialFs,
               (getDbPath :> FileEntry("ro", << >>)) @@ InitialFs}
  /\ pc = "idle"
  /\ op = "none"
  /\ args = NoArgs
  /\ result = NoResult
  /\ trace = << >>
  /\ requests = << >>
  /\ calls = << >>

LoggedRows(fs) == IF IsFile(fs, getDbPath) THEN Len(fs[getDbPath].data) ELSE 0

\* the client called on its own, as the tests of the credit logging do
CallNutrientApiCall ==
  \E endpoint \in {"build", "sign"}, resp \in CreditResponses :
    /\ pc = "idle"
    /\ LoggedRows(fsys) < MaxRows
    /\ pc' = "done"
    /\ op' = "callNutrientApi"
    /\ args' = [NoArgs EXCEPT !.path = << endpoint >>, !.response = resp]
    /\ fsys' = callNutrientApiLogging(World, Request(endpoint, "application/json",
                                      NoInstructions, "-", << >>), NoTimeout, resp).w.fs
    /\ trace' = callNutrientApiLogging(World, Request(endpoint, "application/json",
                                       NoInstructions, "-", << >>), NoTimeout, resp).w.trace
    /\ requests' = callNutrientApiLogging(World, Request(endpoint, "application/json",
                                          NoInstructions, "-", << >>), NoTimeout, resp).w.requests
    /\ result' = Settle(callNutrientApiLogging(World, Request(endpoint, "application/json",
                                               NoInstructions, "-", << >>), NoTimeout, resp))
    /\ UNCHANGED << sandboxDirectory, apiKey, calls >>

\* the AI redaction that calls this client
TimedAiRedactorCall ==
  \E filePath \in {FileA, << "m" >>}, resp \in CreditResponses :
    /\ pc = "idle"
    /\ LoggedRows(fsys) < MaxRows
    /\ pc' = "done"
    /\ op' = "performTimedAiRedactCall"
    /\ args' = [NoArgs EXCEPT !.path = filePath, !.out = << "/", "s", "/", "o" >>,
                              !.response = resp]
    /\ fsys' = performTimedAiRedactCall(World, filePath, << "/", "s", "/", "o" >>, resp).w.fs
    /\ trace' = performTimedAiRedactCall(World, filePath, << "/", "s", "/", "o" >>, resp).w.trace
    /\ requests' =
         performTimedAiRedactCall(World, filePath, << "/", "s", "/", "o" >>, resp).w.requests
    /\ result' = performTimedAiRedactCall(World, filePath, << "/", "s", "/", "o" >>, resp).promise
    /\ UNCHANGED << sandboxDirectory, apiKey, calls >>

NextCredits == CallNutrientApiCall \/ TimedAiRedactorCall \/ Return

SpecCredits == InitCredits /\ [][NextCredits]_vars

(* ------------------------------------------------------------------ *)
(* The directory tree, called on a filesystem with entries that cannot  *)
(* be read                                                              *)
(* ------------------------------------------------------------------ *)

TreeDir == << "/", "s", "/", "d" >>

\* the most entries a directory holds
MaxSiblings == 4

\* the orders in which the callbacks of up to MaxSiblings entries complete
Schedules ==
  {schedule \in [1..MaxSiblings -> 1..MaxSiblings] :
     \A i, k \in 1..MaxSiblings : schedule[i] = schedule[k] => i = k}

\* the filesystem with a file or a listing that the process may not read,
\* and with a FIFO /s/p
TreeFs(modeA, modeD, modeB) ==
  (<< "/", "s", "/", "a" >> :> FileEntry(modeA, "orig"))
  @@ (<< "/", "s", "/", "p" >> :> OtherEntry("rw"))
  @@ (IF modeD = "absent" THEN << >>
      ELSE (TreeDir :> DirEntry(modeD)) @@ (TreeDir \o << "/", "b" >> :> FileEntry(modeB, "orig")))
  @@ InitialFs

InitTree ==
  /\ sandboxDirectory \in {EmptyStr, SandboxRoot}
  /\ apiKey = EmptyStr
  /\ fsys \in {TreeFs(modeA, modeD, modeB) :
                 modeA \in {"rw", "none"}, modeD \in {"absent", "rw", "none"},
                 modeB \in {"rw", "none"}}
  /\ pc = "idle"
  /\ op = "none"
  /\ args = NoArgs
  /\ result = NoResult
  /\ trace = << >>
  /\ requests = << >>
  /\ calls = << >>

\* the directory_tree tool, its callbacks completing in any order
DirectoryTreeCall ==
  \E directoryPath \in {<< "/" >>, SandboxRoot, TreeDir, << "/", "s", "/", "a" >>, << "s" >>,
                        << "/", "w" >>, << "/", "x" >>},
     schedule \in Schedules :
    /\ pc = "idle"
    /\ ToolCallDone("performDirectoryTreeCall", [NoArgs EXCEPT !.path = directoryPath],
                    performDirectoryTreeCall(World, directoryPath, schedule))

NextTree == DirectoryTreeCall \/ Return

SpecTree == InitTree /\ [][NextTree]_vars

(* ------------------------------------------------------------------ *)
(* Claims on the path resolver                                          *)
(* ------------------------------------------------------------------ *)

\* p lies in the directory root or below it: the segments of root lead p's
LiesInside(root, p) ==
  /\ Len(AbsSegs(p)) >= Len(AbsSegs(root))
  /\ SubSeq(AbsSegs(p), 1, Len(AbsSegs(root))) = AbsSegs(root)

\* a call of resolveReadFilePath or resolveWriteFilePath has completed
ResolveDone == pc = "done" /\ op \in {"resolveReadFilePath", "resolveWriteFilePath"}

\* C1: with the jail root set, resolveReadFilePath and resolveWriteFilePath
\* never return a path outside the root: what they return is absolute,
\* normalized and inside it; a string whose candidate path lies outside the
\* root is rejected with the sandbox error; and the call creates, writes and
\* removes nothing outside the root.
C1_NeverOutsideJail ==
  (ResolveDone /\ sandboxDirectory # EmptyStr) =>
     /\ result.settled = "fulfilled" =>
          /\ IsAbsolute(result.value)
          /\ result.value = PathResolve(result.value)
          /\ LiesInside(sandboxDirectory, result.value)
     /\ ~LiesInside(sandboxDirectory, PathResolve(PathJoin(sandboxDirectory, args.path))) =>
          /\ result.settled = "rejected"
          /\ result.error = EscapeError(args.path)
     /\ \A i \in 1..Len(trace) :
          trace[i].ev \in {"mkdir", "writeFile", "rm", "unlink"} =>
             LiesInside(sandboxDirectory, trace[i].path)

\* C1 witness: "../a" under the jail root /s is rejected with the sandbox error
C1_Witness ==
  /\ ResolveDone
  /\ sandboxDirectory = SandboxRoot
  /\ args.path = << ".", ".", "/", "a" >>
  /\ result.settled = "rejected"
  /\ result.error = EscapeError(args.path)

\* C9 as claimed: with the jail root set, an absolute path that already lies
\* inside the root is never rejected as an escape, and when the resolution
\* returns, it returns that path (normalized), not the root joined with it.
C9_InJailAbsoluteUnchanged ==
  (/\ ResolveDone
   /\ sandboxDirectory # EmptyStr
   /\ IsAbsolute(args.path)
   /\ LiesInside(sandboxDirectory, PathResolve(args.path))) =>
     /\ result.settled = "fulfilled" => result.value = PathResolve(args.path)
     /\ result.settled = "rejected" => result.error # EscapeError(args.path)

\* C10: with the jail disabled, every relative path string is rejected with
\* the absolute-paths-required error, an absolute one never is, and what a
\* resolution of an absolute string returns is that path itself: its own
\* segments normalized (an already normalized string is returned as it is),
\* with neither the working directory nor any other prefix before them.
C10_NoJailRequiresAbsolute ==
  (ResolveDone /\ sandboxDirectory = EmptyStr) =>
     /\ ~IsAbsolute(args.path) =>
          /\ result.settled = "rejected"
          /\ result.error = AbsoluteRequiredError(args.path)
     /\ IsAbsolute(args.path) =>
          /\ result.error # AbsoluteRequiredError(args.path)
          /\ result.error # EscapeError(args.path)
          /\ result.settled = "fulfilled" =>
               /\ AbsSegs(result.value) = NormalizeSegs(Split(args.path), << >>, FALSE)
               /\ result.value = << "/" >> \o JoinSegs(AbsSegs(result.value))
               /\ (args.path = << "/" >> \o JoinSegs(AbsSegs(args.path))) =>
                    result.value = args.path

\* C10 witness: without a jail, the absolute string "/s/../a" resolves to "/a"
C10_Witness ==
  /\ ResolveDone
  /\ sandboxDirectory = EmptyStr
  /\ args.path = << "/", "s", "/", ".", ".", "/", "a" >>
  /\ result.settled = "fulfilled"
  /\ result.value = << "/", "a" >>

(* ------------------------------------------------------------------ *)
(* Claims on the tools                                                  *)
(* ------------------------------------------------------------------ *)

BuildDone == pc = "done" /\ op = "performBuildCall"

RedactDone == pc = "done" /\ op = "performAiRedactCall"

IsUrlString(s) == StartsWith(s, Http) \/ StartsWith(s, Https)

\* the strings the file-bearing fields of an instruction graph hold: the
\* file of a part that has one, the image or file an action is given
FileStrings(instructions) ==
  {instructions.parts[i].file : i \in {k \in DOMAIN instructions.parts :
                                          instructions.parts[k].file # EmptyStr}}
  \cup {instructions.actions[i].ref : i \in {k \in DOMAIN instructions.actions :
                                               instructions.actions[k].given}}

\* C2 as claimed: a tool call that ends before any request is sent, on an
\* error of path resolution, of file-reference collection or of the API key,
\* returns a result with isError = true; its promise does not reject.
C2_ErrorsBecomeResults ==
  (pc = "done" /\ op \in {"performBuildCall", "performSignCall", "performAiRedactCall"}
   /\ Len(requests) = 0) =>
     /\ result.settled = "fulfilled"
     /\ result.isError
     /\ Len(result.text) > 0

\* C3: the one request of a build is a JSON body exactly when every file
\* string of the instructions is a URL, and the body then is the instructions
\* object as it was given, with no file field; otherwise, mixed sets included,
\* it is a multipart form with a file field for every local file.
C3_JsonIffAllUrls ==
  (BuildDone /\ Len(requests) > 0) =>
     /\ Len(requests) = 1
     /\ requests[1].endpoint = "build"
     /\ requests[1].contentType \in {"application/json", "multipart/form-data"}
     /\ requests[1].contentType = "application/json" <=>
          \A s \in FileStrings(args.instructions) : IsUrlString(s)
     /\ requests[1].contentType = "application/json" =>
          /\ requests[1].instructions = args.instructions
          /\ requests[1].files = << >>
     /\ requests[1].contentType = "multipart/form-data" =>
          \A s \in FileStrings(args.instructions) :
            ~IsUrlString(s) =>
               \E k \in DOMAIN requests[1].files :
                 requests[1].files[k].filename = PathBasename(s)

\* C3 witness: a URL part with a local watermark image went out as a form
C3_Witness ==
  /\ BuildDone
  /\ Len(requests) = 1
  /\ requests[1].contentType = "multipart/form-data"
  /\ args.instructions.parts = << [file |-> UrlDoc] >>
  /\ args.instructions.actions = << Action("watermark", TRUE, FileA) >>

\* C4: when two parts of a build name the same local file path, both parts
\* go out rewritten to the same key, and the form (one file field per local
\* entry of the reference map) has exactly one file field of that key.
C4_SamePathOneEntry ==
  (BuildDone /\ Len(requests) > 0) =>
     \A i, j \in DOMAIN args.instructions.parts :
       (/\ i # j
        /\ args.instructions.parts[i].file = args.instructions.parts[j].file
        /\ args.instructions.parts[i].file # EmptyStr
        /\ ~IsUrlString(args.instructions.parts[i].file)) =>
          /\ requests[1].instructions.parts[i].file = requests[1].instructions.parts[j].file
          /\ Cardinality({k \in DOMAIN requests[1].files :
                            requests[1].files[k].name =
                              requests[1].instructions.parts[i].file}) = 1

\* C4 witness: a build of two parts that both name /s/a went out with one
\* file field
C4_Witness ==
  /\ BuildDone
  /\ args.instructions.parts = << [file |-> FileA], [file |-> FileA] >>
  /\ args.instructions.actions = << >>
  /\ Len(requests) = 1
  /\ Len(requests[1].files) = 1
  /\ requests[1].instructions.parts = << [file |-> << "a" >>], [file |-> << "a" >>] >>

\* C5: a build whose instructions hold no file string returns the failure
\* 'Error: No valid files or urls found in instructions' and sends no request.
C5_EmptyShortCircuit ==
  (BuildDone /\ FileStrings(args.instructions) = {}) =>
     /\ result = createErrorResponse(
                   Lit("Error: No valid files or urls found in instructions"))
     /\ requests = << >>
     /\ \A i \in 1..Len(trace) : trace[i].ev # "http"

\* C5 witness: a part without a file and a text watermark, with the key set
C5_Witness ==
  /\ BuildDone
  /\ apiKey # EmptyStr
  /\ args.instructions.parts = << [file |-> EmptyStr] >>
  /\ args.instructions.actions = << Action("watermark", FALSE, EmptyStr) >>
  /\ result.isError

\* C6 as claimed: with stage and apply both true the AI redaction fails with
\* the mutual-exclusion message, having accessed neither the filesystem nor
\* the network.
C6_MutualExclusionFirst ==
  (RedactDone /\ args.stage /\ args.apply) =>
     /\ result = createErrorResponse(
                   Lit("Error: stage and apply cannot both be true. Choose one mode."))
     /\ trace = << >>
     /\ requests = << >>

\* both strings resolve, and to the same absolute path
SameResolvedPath(filePath, outputPath) ==
  /\ ~resolvePath(World, filePath).threw
  /\ ~resolvePath(World, outputPath).threw
  /\ resolvePath(World, filePath).val = resolvePath(World, outputPath).val

\* a step that is an AI redaction whose input and output resolve to the
\* same path ends in a failure, sends nothing and leaves the filesystem,
\* the input file included, as it was
C7_SamePathStep ==
  (/\ pc = "idle"
   /\ pc' = "done"
   /\ op' = "performAiRedactCall"
   /\ SameResolvedPath(args'.path, args'.out)) =>
     /\ result'.settled = "fulfilled"
     /\ result'.isError
     /\ requests' = << >>
     /\ fsys' = fsys

ErrorDone == pc = "done" /\ op = "handleApiError"

OpaqueError(body) ==
  createErrorResponse(Lit("Error processing API response: ") \o RawTok(body))

C11_OutsideAbsoluteRerooted ==
  (/\ ResolveDone
   /\ sandboxDirectory # EmptyStr
   /\ IsAbsolute(args.path)
   /\ ~LiesInside(sandboxDirectory, PathResolve(args.path))) =>
     /\ result.settled = "fulfilled" =>
          result.value = PathResolve(PathJoin(sandboxDirectory, args.path))
     /\ (result.settled = "rejected" /\ result.error = EscapeError(args.path)) =>
          ~LiesInside(sandboxDirectory, PathResolve(PathJoin(sandboxDirectory, args.path)))

(* ------------------------------------------------------------------ *)
(* Further claims on the build call                                     *)
(* ------------------------------------------------------------------ *)

\* a file string that names a local file
LocalStrings(instructions) == {s \in FileStrings(instructions) : ~IsUrlString(s)}

\* the error that keeps a local file string from being resolved and read,
\* NoError when there is none
UnderlyingError(reference) ==
  LET r == resolveReadFilePath(World, reference)
  IN IF r.threw THEN r.err ELSE FsReadFile(World, r.val).err

CannotBeRead(reference) == UnderlyingError(reference) # NoError

\* the first part, in the order of the parts, whose local file cannot be read
FirstFailingPart(parts) ==
  CHOOSE i \in DOMAIN parts :
    /\ parts[i].file \in LocalStrings([parts |-> parts, actions |-> << >>])
    /\ CannotBeRead(parts[i].file)
    /\ \A k \in 1..(i - 1) : parts[k].file = EmptyStr \/ IsUrlString(parts[k].file)
                              \/ ~CannotBeRead(parts[k].file)

HasFailingPart(parts) ==
  \E i \in DOMAIN parts : ~IsUrlString(parts[i].file) /\ parts[i].file # EmptyStr
                           /\ CannotBeRead(parts[i].file)

\* C12: a build with a part whose local file cannot be resolved rejects with
\* an error whose message is 'Error with referenced file ', the reference
\* string as it was given, ': ', and the message of the underlying error.
C12_ReferencedFileMessage ==
  (BuildDone /\ HasFailingPart(args.instructions.parts)) =>
     /\ result.settled = "rejected"
     /\ result.error.message =
          Lit("Error with referenced file ")
          \o StrTok(args.instructions.parts[FirstFailingPart(args.instructions.parts)].file)
          \o Lit(": ")
          \o UnderlyingError(args.instructions.parts[
                               FirstFailingPart(args.instructions.parts)].file).message

\* a build of the missing file m after a file that resolved, under the
\* sandbox, has been rejected
C12_Witness ==
  /\ BuildDone
  /\ sandboxDirectory = SandboxRoot
  /\ args.instructions.parts = << [file |-> FileA], [file |-> << "m" >>] >>
  /\ result.settled = "rejected"

\* some file-bearing field of the instructions names a local file that
\* cannot be resolved and read
HasFailingField(instructions) == \E s \in LocalStrings(instructions) : CannotBeRead(s)

\* a build call, made where this field fails, ends rejected, with no request
\* sent, nothing written, created or removed, and the filesystem as it was
C13_AbortStep ==
  (pc = "idle" /\ pc' = "done" /\ op' = "performBuildCall"
   /\ HasFailingField(args'.instructions)) =>
     /\ result'.settled = "rejected"
     /\ Len(requests') = 0
     /\ fsys' = fsys
     /\ \A i \in DOMAIN trace' :
          trace'[i].ev \notin {"http", "writeFile", "mkdir", "unlink", "rm"}

\* C13: a build with a file-bearing field that fails to resolve is aborted
\* as a whole: no remote call is made and no output file is written, also
\* when fields processed before the failing one resolved.
C13_FailedFieldAbortsAll == [][C13_AbortStep]_vars

\* a build whose part resolved and was read and whose watermark image is
\* missing has ended
C13_Witness ==
  /\ BuildDone
  /\ args.instructions.parts = << [file |-> FileA] >>
  /\ args.instructions.actions = << Action("watermark", TRUE, << "m" >>) >>
  /\ \E i \in DOMAIN trace : trace[i] = [ev |-> "readFile", path |-> FileA]
  /\ result.settled = "rejected"

(* ------------------------------------------------------------------ *)
(* Claims on the saved output                                           *)
(* ------------------------------------------------------------------ *)

SavingTools == {"performBuildCall", "performSignCall", "performAiRedactCall"}

\* the step of a tool call that ends with a success result for a file output
FileOutputSuccessStep ==
  /\ pc = "idle" /\ pc' = "done" /\ op' \in SavingTools
  /\ result'.settled = "fulfilled" /\ ~result'.isError
  /\ ~(op' = "performBuildCall" /\ args'.instructions.output = "json-content")

\* such a step has written the response at the path resolveWriteFilePath
\* gives for the output path and at no other file, that path lies inside the
\* sandbox directory when one is set, and the message ends with that path
C14_SavedAtResolvedStep ==
  FileOutputSuccessStep =>
     /\ ~resolveWriteFilePath(World, args'.out).threw
     /\ resolveWriteFilePath(World, args'.out).val \in DOMAIN fsys'
     /\ fsys'[resolveWriteFilePath(World, args'.out).val] = FileEntry("rw", "resp")
     /\ \A q \in DOMAIN fsys' \ {resolveWriteFilePath(World, args'.out).val} :
          fsys'[q].kind = "file" => (q \in DOMAIN fsys /\ fsys'[q] = fsys[q])
     /\ trace'[Len(trace')] =
          [ev |-> "writeFile", path |-> resolveWriteFilePath(World, args'.out).val]
     /\ sandboxDirectory # EmptyStr =>
          LiesInside(sandboxDirectory, resolveWriteFilePath(World, args'.out).val)
     /\ result'.text[Len(result'.text)] =
          StrTok(resolveWriteFilePath(World, args'.out).val)[1]

\* C14: whenever build, sign or AI redaction returns success for a file
\* output, the response bytes were written to exactly the path
\* resolveWriteFilePath returned for the output path, inside the sandbox
\* directory when one is set, and the success message contains that path.
C14_SavedAtResolvedPath == [][C14_SavedAtResolvedStep]_vars

\* a signing under the sandbox with a relative output path has saved its
\* response in a new directory below the sandbox directory
C14_Witness ==
  /\ pc = "done" /\ op = "performSignCall"
  /\ sandboxDirectory = SandboxRoot
  /\ args.out = << "n", "/", "o" >>
  /\ result.settled = "fulfilled" /\ ~result.isError
  /\ << "/", "s", "/", "n", "/", "o" >> \in DOMAIN fsys
  /\ fsys[<< "/", "s", "/", "n", "/", "o" >>].data = "resp"

\* the step of a build for the output type json-content whose request was
\* answered with a body that arrived whole
JsonContentStep ==
  /\ pc = "idle" /\ pc' = "done" /\ op' = "performBuildCall"
  /\ args'.instructions.output = "json-content"
  /\ Len(requests') = 1
  /\ args'.response.outcome = "ok" /\ args'.response.body.stream = "ok"

\* such a build fulfils with isError false and the body as text, and leaves
\* every file as it was: no file is created, changed or removed
C15_JsonContentStep ==
  JsonContentStep =>
     /\ result'.settled = "fulfilled" /\ ~result'.isError
     /\ result'.text = RawTok(args'.response.body)
     /\ {q \in DOMAIN fsys' : fsys'[q].kind = "file"} = {q \in DOMAIN fsys : fsys[q].kind = "file"}
     /\ \A q \in DOMAIN fsys : fsys[q].kind = "file" => fsys'[q] = fsys[q]
     /\ trace'[Len(trace')].ev = "http"

\* C15: a build with the output type json-content returns isError false
\* with a text equal to the remote body verbatim and does not write the
\* response to the output path.
C15_JsonContentVerbatim == [][C15_JsonContentStep]_vars

\* a json-content build of a local file has returned the body as text
C15_Witness ==
  /\ BuildDone
  /\ args.instructions.output = "json-content"
  /\ args.instructions.parts = << [file |-> FileA] >>
  /\ Len(requests) = 1
  /\ result.settled = "fulfilled" /\ ~result.isError
  /\ result.text = RawTok(DocumentBody)

(* ------------------------------------------------------------------ *)
(* Claims on the API client                                             *)
(* ------------------------------------------------------------------ *)

\* the result that carries the error of a missing API key
KeyErrorText == Lit("Error: ") \o Lit("NUTRIENT_DWS_API_KEY not set in environment")

\* every input of the call is in order, so that the call gets as far as
\* callNutrientApi: the output path resolves, every local file it names can
\* be read, a build names a file, a redaction does not ask for both modes
\* and does not write over its input
InputsInOrder(name, a) ==
  /\ ~resolveWriteFilePath(World, a.out).threw
  /\ name = "performBuildCall" =>
       /\ FileStrings(a.instructions) # {}
       /\ ~HasFailingField(a.instructions)
  /\ name = "performSignCall" =>
       \A s \in {a.path, a.watermark, a.graphic} \ {EmptyStr} : ~CannotBeRead(s)
  /\ name = "performAiRedactCall" =>
       /\ ~CannotBeRead(a.path)
       /\ ~(a.stage /\ a.apply)
       /\ PathResolve(resolveReadFilePath(World, a.path).val)
            # PathResolve(resolveWriteFilePath(World, a.out).val)

\* a tool call sends no request that lacks the key; made without a key it
\* sends none at all and is no success, and with its inputs in order it
\* returns the failure result of the missing key
C16_KeyStep ==
  (pc = "idle" /\ pc' = "done" /\ op' \in SavingTools) =>
     /\ \A i \in DOMAIN requests' :
          requests'[i].authorization = apiKey /\ requests'[i].authorization # EmptyStr
     /\ apiKey = EmptyStr =>
          /\ Len(requests') = 0
          /\ \A i \in DOMAIN trace' : trace'[i].ev # "http"
          /\ ~(result'.settled = "fulfilled" /\ ~result'.isError)
          /\ InputsInOrder(op', args') =>
               /\ result'.settled = "fulfilled" /\ result'.isError
               /\ result'.text = KeyErrorText

\* C16: without NUTRIENT_DWS_API_KEY callNutrientApi fails before any HTTP
\* request is issued; build, sign and AI redaction each return a failure
\* result carrying that configuration error; no request is ever sent
\* without the Authorization header of the key.
C16_NoKeyNoRequest == [][C16_KeyStep]_vars

\* an AI redaction of a readable file, made without a key, has failed with
\* the error of the missing key
C16_Witness ==
  /\ RedactDone
  /\ apiKey = EmptyStr
  /\ args.path = FileA /\ args.out = << "/", "s", "/", "o" >> /\ ~args.stage
  /\ result.isError
  /\ result.text = KeyErrorText

\* C18 as claimed: the request of an AI redaction to 'ai/redact' is sent
\* with a timeout of 300000 ms, the requests of build and sign with none.
C18_RedactTimeout ==
  \A i \in DOMAIN requests :
    requests[i].timeout = IF requests[i].endpoint = "ai/redact" THEN FiveMinutes ELSE NoTimeout

\* the filesystem without the database of the credit store
OffStore(fs) == [q \in (DOMAIN fs) \ {getDbPath} |-> fs[q]]

\* the response of the step, had it come without credit headers
BareResponse(a) == [a.response EXCEPT !.headers = NoCreditHeaders]

BareClientCall(a) ==
  callNutrientApiLogging(World, Request(a.path[1], "application/json", NoInstructions,
                                        "-", << >>), NoTimeout, BareResponse(a))

BareRedactCall(a) == performTimedAiRedactCall(World, a.path, a.out, BareResponse(a))

\* a call ends as it would have ended on a response without credit headers,
\* where the logger does nothing: the client returns the response it got,
\* the operation its result, with the same requests sent and, the database
\* aside, the same filesystem
C17_LoggingStep ==
  (pc = "idle" /\ pc' = "done") =>
     /\ op' = "callNutrientApi" =>
          /\ result' = Settle(BareClientCall(args'))
          /\ requests' = BareClientCall(args').w.requests
          /\ OffStore(fsys') = OffStore(BareClientCall(args').w.fs)
          /\ (apiKey # EmptyStr /\ args'.response.outcome = "ok") =>
               result' = Fulfilled(args'.response.body)
     /\ op' = "performTimedAiRedactCall" =>
          /\ result' = BareRedactCall(args').promise
          /\ requests' = BareRedactCall(args').w.requests
          /\ OffStore(fsys') = OffStore(BareRedactCall(args').w.fs)

\* C17: credit-usage logging never changes the outcome of a request:
\* whether the logger succeeds, throws, or finds the headers absent or not
\* numeric, callNutrientApi returns the same response and the operation
\* yields the same result.
C17_LoggingKeepsOutcome == [][C17_LoggingStep]_vars

\* an AI redaction whose response carried a numeric credit usage has
\* succeeded although the store could not be opened
C17_Witness ==
  /\ pc = "done" /\ op = "performTimedAiRedactCall"
  /\ args.response.headers.usage = Header("string", << "5" >>)
  /\ IsDir(fsys, getDbPath)
  /\ Len(requests) = 1
  /\ result.settled = "fulfilled" /\ ~result.isError

(* ------------------------------------------------------------------ *)
(* Claim on the sandbox directory                                       *)
(* ------------------------------------------------------------------ *)

\* a step that ends a call of setSandboxDirectory
SetSandboxStep == pc = "idle" /\ pc' = "done" /\ op' = "setSandboxDirectory"

\* the sandbox directory changes in no other step; the call with null leaves
\* none set; a call that fails leaves the one there was; a call that
\* succeeds leaves the absolute path of its argument, a directory by then
C19_SandboxStep ==
  /\ ~SetSandboxStep => sandboxDirectory' = sandboxDirectory
  /\ SetSandboxStep =>
       /\ args'.path = EmptyStr =>
            result'.settled = "fulfilled" /\ sandboxDirectory' = EmptyStr
       /\ result'.settled = "rejected" => sandboxDirectory' = sandboxDirectory
       /\ (result'.settled = "fulfilled" /\ args'.path # EmptyStr) =>
            /\ sandboxDirectory' = PathResolve(args'.path)
            /\ IsAbsolute(sandboxDirectory')
            /\ IsDir(fsys', sandboxDirectory')

\* C19: the sandbox directory is never partially applied: it is the value
\* it had, or the absolute path of a setSandboxDirectory call whose check or
\* creation of the directory completed; when the creation fails the
\* directory set before stays in effect; setSandboxDirectory(null) disables
\* the sandbox.
C19_SandboxNeverPartial == [][C19_SandboxStep]_vars

\* a call naming a file has failed and the sandbox directory set before,
\* created by its call, is still in effect
C19_Witness ==
  /\ pc = "done" /\ op = "setSandboxDirectory"
  /\ args.path = << "/", "s", "/", "a" >>
  /\ result.settled = "rejected"
  /\ sandboxDirectory = << "/", "w", "/", "s" >>

(* ------------------------------------------------------------------ *)
(* Claim on the directory tree                                          *)
(* ------------------------------------------------------------------ *)

\* the events of the trace that name the path p and are an ev
EventsAt(ev, p) == {i \in DOMAIN trace : trace[i] = [ev |-> ev, path |-> p]}

\* an open that gave a handle: the file of the path can be read
OpenedAt(i) == trace[i].ev = "open" /\ Readable(fsys, trace[i].path)

\* C20 as claimed: the directory tree closes every file handle it has
\* opened exactly once by the close of the handle, none for an open that
\* failed, and never closes a raw descriptor.
C20_HandlesClosedOnce ==
  (pc = "done" /\ op = "performDirectoryTreeCall") =>
     /\ \A i \in DOMAIN trace :
          trace[i].ev = "open" =>
            Cardinality(EventsAt("close", trace[i].path)) = IF OpenedAt(i) THEN 1 ELSE 0
     /\ \A i \in DOMAIN trace : trace[i].ev # "fs.close"

(* ------------------------------------------------------------------ *)
(* Claims on the order of a call's steps                                *)
(* ------------------------------------------------------------------ *)

\* C21 as claimed: in build, sign and AI redaction the output path is
\* resolved for write before any input file is resolved or read and before
\* the request: the first access a call makes is the one that resolves its
\* output path, and a call whose output path does not resolve makes none.
C21_OutputResolvedFirst ==
  (pc = "done" /\ op \in SavingTools /\ trace # << >>) =>
     /\ ~resolvePath(World, args.out).threw
     /\ trace[1] = [ev |-> "access", path |-> resolvePath(World, args.out).val]

(* ------------------------------------------------------------------ *)
(* Claims on the write probe                                            *)
(* ------------------------------------------------------------------ *)

\* the step of a call of resolveWriteFilePath
ResolveWriteStep == pc = "idle" /\ pc' = "done" /\ op' = "resolveWriteFilePath"

\* such a step leaves every file and directory as it was, and a probe it
\* wrote is followed by the removal of the file or of the directory made
\* for it
C22_ProbeStep ==
  ResolveWriteStep =>
     /\ fsys' = fsys
     /\ \A i \in DOMAIN trace' :
          (trace'[i].ev = "writeFile" /\ result'.settled = "fulfilled") =>
             /\ i < Len(trace')
             /\ trace'[i + 1].ev \in {"rm", "unlink"}
             /\ (trace'[i + 1].ev = "unlink") = (trace'[i - 1].ev = "access")

\* C22: resolveWriteFilePath leaves the filesystem exactly as it found it
\* on every return path, success or failure: the probe file and every
\* directory created for the probe are removed before it returns or
\* throws, and a file that already existed at the target keeps its content.
C22_ProbeLeavesNothing == [][C22_ProbeStep]_vars

(* ------------------------------------------------------------------ *)
(* Claims on the failures after the request                             *)
(* ------------------------------------------------------------------ *)

\* C23 as claimed: when the request succeeded but the response cannot be
\* materialized (its stream breaks while being read, or the output
\* directory or file cannot be written), build, sign and AI redaction
\* still fulfil with a result, which then has isError true; the promise is
\* never rejected.
C23_MaterializeFailureIsResult ==
  (pc = "done" /\ op \in SavingTools /\ Len(requests) = 1 /\ args.response.outcome = "ok") =>
     /\ result.settled = "fulfilled"
     /\ args.response.body.stream = "error" => result.isError

(* ------------------------------------------------------------------ *)
(* Builds of files that share a name                                    *)
(* ------------------------------------------------------------------ *)

\* the file a outside /s
FileOuter == << "/", "a" >>

\* the file of a part: /s/a, /a, the relative name a, and a URL
KeyFiles == {FileA, FileOuter, << "a" >>, UrlDoc}

\* the document_processor tool called with parts whose files share the
\* basename a, with or without a watermark image of that basename
DocumentProcessorKeysCall ==
  \E parts \in UNION {[1..k -> [file : KeyFiles]] : k \in 1..MaxParts},
     actions \in {<< >>, << Action("watermark", TRUE, FileOuter) >>},
     resp \in {Response("ok", DocumentBody), Response("noResponse", NoBody)} :
    /\ pc = "idle"
    /\ ToolCallDone("performBuildCall",
                    [NoArgs EXCEPT !.instructions = [parts |-> parts, actions |-> actions,
                                                     output |-> "pdf"],
                                   !.out = << "/", "s", "/", "o" >>, !.response = resp],
                    performBuildCall(World, [parts |-> parts, actions |-> actions,
                                             output |-> "pdf"],
                                     << "/", "s", "/", "o" >>, resp))

NextKeys == DocumentProcessorKeysCall \/ Return

SpecKeys == InitTools /\ [][NextKeys]_vars

\* the strings of the file-bearing fields of instructions, the parts first
\* and the actions after them, empty where a field holds none
RefSeq(instructions) ==
  [i \in 1..(Len(instructions.parts) + Len(instructions.actions)) |->
     IF i <= Len(instructions.parts) THEN instructions.parts[i].file
     ELSE IF hasFileReference(instructions.actions[i - Len(instructions.parts)])
       THEN instructions.actions[i - Len(instructions.parts)].ref
     ELSE EmptyStr]

\* what a reference string denotes: the URL itself, or the local file the
\* string resolves to
Denotes(reference) ==
  IF IsUrlString(reference) THEN reference ELSE resolvePath(World, reference).val

\* C24 as claimed: in the request of a build two file-bearing fields carry
\* the same key only if they denote the same resolved local file or the
\* same URL, and every local file referenced (files of one basename in
\* different directories included) has a file field of its key that holds
\* its own bytes.
C24_DistinctFilesOwnKey ==
  (BuildDone /\ Len(requests) = 1) =>
     /\ \A i, j \in DOMAIN RefSeq(args.instructions) :
          (/\ RefSeq(args.instructions)[i] # EmptyStr
           /\ RefSeq(args.instructions)[j] # EmptyStr
           /\ RefSeq(requests[1].instructions)[i] = RefSeq(requests[1].instructions)[j]) =>
             Denotes(RefSeq(args.instructions)[i]) = Denotes(RefSeq(args.instructions)[j])
     /\ \A i \in DOMAIN RefSeq(args.instructions) :
          (RefSeq(args.instructions)[i] # EmptyStr /\ ~IsUrlString(RefSeq(args.instructions)[i])) =>
             \E k \in DOMAIN requests[1].files :
               /\ requests[1].files[k].name = RefSeq(requests[1].instructions)[i]
               /\ requests[1].files[k].buffer = fsys[Denotes(RefSeq(args.instructions)[i])].data

(* ------------------------------------------------------------------ *)
(* Claims on the escape check                                           *)
(* ------------------------------------------------------------------ *)

\* the candidate path of a string lies outside the sandbox directory: its
\* relative path from there starts with the segment ".." or is absolute
CandidateEscapes(pathStr) ==
  LET relativePath == PathRelative(sandboxDirectory, candidatePath(pathStr))
  IN \/ IsAbsolute(relativePath)
     \/ (Split(relativePath) # << >> /\ Split(relativePath)[1] = DotDot)

\* C25 as claimed: with the sandbox directory set, a path string is
\* rejected by the escape check exactly when the relative path from the
\* sandbox directory to its candidate path starts with the segment ".." or
\* is absolute; a candidate inside the sandbox directory is accepted
\* whatever its segments are named, a first segment that only begins with
\* two dots included.
C25_EscapeCheckExact ==
  (ResolveDone /\ sandboxDirectory # EmptyStr) =>
     ((result.settled = "rejected" /\ result.error = EscapeError(args.path))
        <=> CandidateEscapes(args.path))

(* ------------------------------------------------------------------ *)
(* Claims on the images of a signature                                  *)
(* ------------------------------------------------------------------ *)

\* the call failed on the image of the field fieldName
ImageFailure(fieldName) ==
  /\ result.settled = "fulfilled" /\ result.isError
  /\ Len(result.text) >= 3
  /\ SubSeq(result.text, 1, 3) = Lit("Error: ") \o Lit("Error with ") \o StrTok(fieldName)

\* the image of the field fieldName went out in the form as that field,
\* read from the file the string image resolves to
ImageUploaded(fieldName, image) ==
  \E k \in DOMAIN requests[1].files :
    /\ requests[1].files[k].name = fieldName
    /\ requests[1].files[k].filename = PathBasename(resolvePath(World, image).val)
    /\ requests[1].files[k].buffer = fsys[resolvePath(World, image).val].data

\* C26 as claimed: the watermark and graphic images of a sign call follow
\* the rule of build parts: a string that starts with http:// or https://
\* is a remote reference, which is not looked up in the filesystem and does
\* not fail the call, and any other string is resolved for read and
\* uploaded as its own field of the form.
C26_SignImagesLikeParts ==
  (pc = "done" /\ op = "performSignCall") =>
     \A f \in {<< FieldWatermark, args.watermark >>, << FieldGraphic, args.graphic >>} :
       /\ IsUrlString(f[2]) =>
            /\ ~ImageFailure(f[1])
            /\ \A i \in DOMAIN trace :
                 trace[i].path # PathResolve(PathJoin(sandboxDirectory, f[2]))
       /\ (f[2] # EmptyStr /\ ~IsUrlString(f[2]) /\ Len(requests) = 1) =>
            ImageUploaded(f[1], f[2])

(* ------------------------------------------------------------------ *)
(* Claims on the form of a build                                        *)
(* ------------------------------------------------------------------ *)

\* the key a file-bearing field is rewritten to: the URL itself, or the
\* basename of the resolved file with every character that is no letter
\* or digit replaced
KeyOf(reference) ==
  IF IsUrlString(reference) THEN reference
  ELSE fileKey(PathBasename(resolvePath(World, reference).val))

\* the step of a build whose request goes out as a form
MultipartStep ==
  /\ pc = "idle" /\ pc' = "done" /\ op' = "performBuildCall"
  /\ Len(requests') = 1
  /\ requests'[1].contentType = "multipart/form-data"

\* the instructions field holds the instructions with every file-bearing
\* field rewritten to its key and nothing else changed; the file fields are
\* those of the local files, one of each key, with the basename as
\* filename and the bytes of the file; no field is named by a URL
C27_MultipartStep ==
  MultipartStep =>
     /\ DOMAIN requests'[1].instructions = DOMAIN args'.instructions
     /\ requests'[1].instructions.output = args'.instructions.output
     /\ Len(requests'[1].instructions.parts) = Len(args'.instructions.parts)
     /\ Len(requests'[1].instructions.actions) = Len(args'.instructions.actions)
     /\ \A j \in DOMAIN args'.instructions.actions :
          /\ requests'[1].instructions.actions[j].type = args'.instructions.actions[j].type
          /\ requests'[1].instructions.actions[j].given = args'.instructions.actions[j].given
     /\ \A i \in DOMAIN RefSeq(args'.instructions) :
          RefSeq(requests'[1].instructions)[i] =
            IF RefSeq(args'.instructions)[i] = EmptyStr THEN EmptyStr
            ELSE KeyOf(RefSeq(args'.instructions)[i])
     /\ \A i \in DOMAIN RefSeq(args'.instructions) :
          (RefSeq(args'.instructions)[i] # EmptyStr /\ ~IsUrlString(RefSeq(args'.instructions)[i])) =>
             \E k \in DOMAIN requests'[1].files :
               requests'[1].files[k].name = RefSeq(requests'[1].instructions)[i]
     /\ \A k \in DOMAIN requests'[1].files :
          /\ ~IsUrlString(requests'[1].files[k].name)
          /\ \E i \in DOMAIN RefSeq(args'.instructions) :
               /\ RefSeq(args'.instructions)[i] # EmptyStr
               /\ ~IsUrlString(RefSeq(args'.instructions)[i])
               /\ requests'[1].files[k].name = KeyOf(RefSeq(args'.instructions)[i])
               /\ requests'[1].files[k].filename =
                    PathBasename(resolvePath(World, RefSeq(args'.instructions)[i]).val)
               /\ requests'[1].files[k].buffer =
                    fsys[resolvePath(World, RefSeq(args'.instructions)[i]).val].data
          /\ \A m \in DOMAIN requests'[1].files :
               requests'[1].files[m].name = requests'[1].files[k].name => m = k

\* C27: in multipart mode the payload of a build is one 'instructions'
\* field with the JSON of the rewritten instructions and exactly one file
\* field per local entry of the reference map, named by its key with the
\* file's basename as filename; URL entries add no field, and every key
\* the rewritten instructions use for a local file names a field present.
C27_MultipartPayload == [][C27_MultipartStep]_vars

\* a build of a URL part, a local part and a local watermark image of the
\* same file went out as a form with the one file field a
C27_Witness ==
  /\ BuildDone
  /\ args.instructions.parts = << [file |-> UrlDoc], [file |-> FileA] >>
  /\ args.instructions.actions = << Action("watermark", TRUE, FileA) >>
  /\ Len(requests) = 1
  /\ requests[1].contentType = "multipart/form-data"
  /\ requests[1].instructions.parts = << [file |-> UrlDoc], [file |-> << "a" >>] >>
  /\ requests[1].instructions.actions = << Action("watermark", TRUE, << "a" >>) >>
  /\ requests[1].files = << [name |-> << "a" >>, filename |-> << "a" >>, buffer |-> "orig"] >>

(* ------------------------------------------------------------------ *)
(* Two signings in flight: performSignCall at its await points          *)
(* ------------------------------------------------------------------ *)

Calls == {1, 2}

\* the output paths of the calls: files of the directory /s/n, which does
\* not exist when the calls start
InterleavedOutputs == {<< "/", "s", "/", "n", "/", "o" >>, << "/", "s", "/", "n", "/", "p" >>}

\* a call of performSignCall('/s/a', outputFilePath) that has not run yet
NewCall(outputFilePath) ==
  [at |-> "start", out |-> outputFilePath, resolved |-> EmptyStr, created |-> EmptyStr,
   form |-> << >>, result |-> NoResult]

InitInterleaved ==
  /\ sandboxDirectory = SandboxRoot
  /\ apiKey = << "k" >>
  /\ fsys = InitialFs
  /\ pc = "idle"
  /\ op = "none"
  /\ args = NoArgs
  /\ result = NoResult
  /\ trace = << >>
  /\ requests = << >>
  /\ calls \in [Calls -> {NewCall(outputFilePath) : outputFilePath \in InterleavedOutputs}]

\* call c resumes after the await whose operation ended as r and goes on
\* as next
Resumes(c, r, next) ==
  /\ fsys' = r.w.fs
  /\ requests' = requests \o r.w.requests
  /\ calls' = [calls EXCEPT ![c] = next]
  /\ UNCHANGED << sandboxDirectory, apiKey, pc, op, args, result, trace >>

\* sign.ts:42-44, the catch clause of performSignCall
Caught(c, r) == [calls[c] EXCEPT !.at = "done", !.result = handleApiError(r.err)]

\* a rejection of the promise that performSignCall returned without await
Escaped(c, r) == [calls[c] EXCEPT !.at = "done", !.result = Rejected(r.err)]

\* sandbox.ts:100, resolvePath, up to the first await
StartCall(c) ==
  /\ calls[c].at = "start"
  /\ Resumes(c, resolvePath(World, calls[c].out),
             IF resolvePath(World, calls[c].out).threw
               THEN Caught(c, resolvePath(World, calls[c].out))
             ELSE [calls[c] EXCEPT !.at = "access",
                                   !.resolved = resolvePath(World, calls[c].out).val])

\* sandbox.ts:102, await fs.promises.access(resolvedFilePath)
ProbeAccess(c) ==
  /\ calls[c].at = "access"
  /\ Resumes(c, FsAccess(World, calls[c].resolved),
             [calls[c] EXCEPT !.at = IF FsAccess(World, calls[c].resolved).threw
                                       THEN "dirAccess" ELSE "open"])

\* sandbox.ts:103-104, await open and await fd.close()
ProbeOpen(c) ==
  /\ calls[c].at = "open"
  /\ Resumes(c, FsOpenReadWriteClose(World, calls[c].resolved),
             [calls[c] EXCEPT !.at = IF FsOpenReadWriteClose(World, calls[c].resolved).threw
                                       THEN "dirAccess" ELSE "readInput"])

\* sandbox.ts:109, await fs.promises.access(outputDir)
ProbeDirAccess(c) ==
  /\ calls[c].at = "dirAccess"
  /\ Resumes(c, FsAccess(World, PathDirname(calls[c].resolved)),
             [calls[c] EXCEPT !.at = IF FsAccess(World, PathDirname(calls[c].resolved)).threw
                                       THEN "mkdir" ELSE "probeWrite"])

\* sandbox.ts:111, createdFolderPath = await fs.promises.mkdir(...)
ProbeMkdir(c) ==
  /\ calls[c].at = "mkdir"
  /\ Resumes(c, FsMkdirRecursive(World, PathDirname(calls[c].resolved)),
             IF FsMkdirRecursive(World, PathDirname(calls[c].resolved)).threw
               THEN Caught(c, FsMkdirRecursive(World, PathDirname(calls[c].resolved)))
             ELSE [calls[c] EXCEPT
                     !.at = "probeWrite",
                     !.created = FsMkdirRecursive(World, PathDirname(calls[c].resolved)).val])

\* sandbox.ts:113, await fs.promises.writeFile(resolvedFilePath, 'test')
ProbeWriteFile(c) ==
  /\ calls[c].at = "probeWrite"
  /\ Resumes(c, FsWriteFile(World, calls[c].resolved, "test"),
             IF FsWriteFile(World, calls[c].resolved, "test").threw
               THEN Caught(c, FsWriteFile(World, calls[c].resolved, "test"))
             ELSE [calls[c] EXCEPT !.at = "cleanup"])

\* sandbox.ts:114-118, await rm of the created directory or unlink of the probe
ProbeCleanup(c) ==
  /\ calls[c].at = "cleanup"
  /\ Resumes(c, probeCleanup(Ret(World, calls[c].resolved), calls[c].resolved, calls[c].created),
             IF probeCleanup(Ret(World, calls[c].resolved), calls[c].resolved,
                             calls[c].created).threw
               THEN Caught(c, probeCleanup(Ret(World, calls[c].resolved), calls[c].resolved,
                                           calls[c].created))
             ELSE [calls[c] EXCEPT !.at = "readInput"])

\* sign.ts:24-25, the document /s/a is resolved and read; no call writes
\* it, so its three awaits are taken as one step
ReadInput(c) ==
  /\ calls[c].at = "readInput"
  /\ Resumes(c, addFileToFormData(World, << >>, FieldFile, FileA),
             IF addFileToFormData(World, << >>, FieldFile, FileA).threw
               THEN Caught(c, addFileToFormData(World, << >>, FieldFile, FileA))
             ELSE [calls[c] EXCEPT !.at = "request",
                                   !.form = addFileToFormData(World, << >>, FieldFile, FileA).val])

\* sign.ts:39, await callNutrientApi('sign', formData), answered with the
\* signed document
SendRequest(c) ==
  /\ calls[c].at = "request"
  /\ Resumes(c, callNutrientApi(World, Request("sign", "multipart/form-data", NoInstructions,
                                               "signatureOptions", calls[c].form),
                                Response("ok", DocumentBody)),
             [calls[c] EXCEPT !.at = "saveAccess"])

\* handleFileResponse, await fs.promises.access(outputDir)
SaveAccess(c) ==
  /\ calls[c].at = "saveAccess"
  /\ Resumes(c, FsAccess(World, PathDirname(calls[c].resolved)),
             [calls[c] EXCEPT !.at = IF FsAccess(World, PathDirname(calls[c].resolved)).threw
                                       THEN "saveMkdir" ELSE "saveWrite"])

\* handleFileResponse, await fs.promises.mkdir(outputDir, { recursive: true })
SaveMkdir(c) ==
  /\ calls[c].at = "saveMkdir"
  /\ Resumes(c, FsMkdirRecursive(World, PathDirname(calls[c].resolved)),
             IF FsMkdirRecursive(World, PathDirname(calls[c].resolved)).threw
               THEN Escaped(c, FsMkdirRecursive(World, PathDirname(calls[c].resolved)))
             ELSE [calls[c] EXCEPT !.at = "saveWrite"])

\* handleFileResponse, await fs.promises.writeFile(resolvedOutputPath,
\* resultBuffer) and the result
SaveWriteFile(c) ==
  /\ calls[c].at = "saveWrite"
  /\ Resumes(c, FsWriteFile(World, calls[c].resolved, "resp"),
             [calls[c] EXCEPT
                !.at = "done",
                !.result = fileResponseWritten(FsWriteFile(World, calls[c].resolved, "resp"),
                                               calls[c].resolved,
                                               Lit("File signed successfully")).promise])

NextInterleaved ==
  \E c \in Calls :
    \/ StartCall(c)
    \/ ProbeAccess(c)
    \/ ProbeOpen(c)
    \/ ProbeDirAccess(c)
    \/ ProbeMkdir(c)
    \/ ProbeWriteFile(c)
    \/ ProbeCleanup(c)
    \/ ReadInput(c)
    \/ SendRequest(c)
    \/ SaveAccess(c)
    \/ SaveMkdir(c)
    \/ SaveWriteFile(c)

SpecInterleaved == InitInterleaved /\ [][NextInterleaved]_vars

(* ------------------------------------------------------------------ *)
(* Claims on calls that interleave                                      *)
(* ------------------------------------------------------------------ *)

\* call c has reported success
Succeeded(c) == calls[c].result.settled = "fulfilled" /\ ~calls[c].result.isError

\* C28 as claimed: when two calls whose output files lie in the same
\* directory, missing at start, interleave at their await points, neither
\* fails (each succeeds when run alone, so a failure is the other's doing),
\* and once both have finished the output file of every call that
\* reported success is on disk with the response in it.
C28_ProbesDoNotInterfere ==
  (/\ DOMAIN calls = Calls
   /\ \A c \in Calls : calls[c].at = "done"
   /\ calls[1].out # calls[2].out) =>
     \A c \in Calls :
       /\ Succeeded(c)
       /\ calls[c].resolved \in DOMAIN fsys
       /\ fsys[calls[c].resolved].data = "resp"

(* ------------------------------------------------------------------ *)
(* Claims on the number of requests                                     *)
(* ------------------------------------------------------------------ *)

\* the number of HTTP exchanges the call made
HttpCount == Cardinality({i \in DOMAIN trace : trace[i].ev = "http"})

\* C29: a call of build, sign or AI redaction issues at most one HTTP
\* request, whether that request succeeds or fails (a hosted error, an
\* opaque error, no response or a broken response stream is not followed
\* by a second request), and its promise settles once, to one result.
C29_AtMostOneRequest ==
  (pc = "done" /\ op \in SavingTools) =>
     /\ Len(requests) <= 1
     /\ HttpCount = Len(requests)
     /\ result.settled \in {"fulfilled", "rejected"}
     /\ result.settled = "fulfilled" => Len(result.text) > 0
     /\ args.response # NoResponse <=> Len(requests) = 1
     /\ (Len(requests) = 1 /\ args.response.outcome # "ok") =>
          /\ result.settled = "fulfilled" /\ result.isError
          /\ trace[Len(trace)].ev = "http"

\* a signing whose request was answered with a hosted error has made that
\* one request and returned the failure
C29_Witness ==
  /\ pc = "done" /\ op = "performSignCall"
  /\ args.response.outcome = "httpError"
  /\ args.response.body.json = "object"
  /\ Len(requests) = 1
  /\ HttpCount = 1
  /\ result.settled = "fulfilled" /\ result.isError

(* ------------------------------------------------------------------ *)
(* Claims on the directory tree                                         *)
(* ------------------------------------------------------------------ *)

\* an entry the tree shows: a regular file that can be opened for reading
\* or a directory that can be listed
Shown(fs, q) == (IsFile(fs, q) \/ IsDir(fs, q)) /\ Readable(fs, q)

RECURSIVE ExpectedChildren(_, _)

\* the children of directoryPath in the tree: the entries shown, once each,
\* in the order of the listing, a directory with its own children
ExpectedChildren(fs, directoryPath) ==
  LET shown == SelectSeq(Dirents(fs, directoryPath), LAMBDA q : Shown(fs, q))
  IN [i \in 1..Len(shown) |->
        TreeEntry(PathBasename(shown[i]), shown[i],
                  IF IsDir(fs, shown[i]) THEN "directory" ELSE "file",
                  IF IsDir(fs, shown[i]) THEN ExpectedChildren(fs, shown[i]) ELSE << >>)]

\* the step of a directory tree call on a directory that can be listed
TreeStep ==
  /\ pc = "idle" /\ pc' = "done" /\ op' = "performDirectoryTreeCall"
  /\ ~resolveReadDirectoryPath(World, args'.path).threw
  /\ Readable(fsys, resolveReadDirectoryPath(World, args'.path).val)

\* whatever the order in which the callbacks complete, such a call succeeds
\* with the expected children and changes no file
C30_TreeStep ==
  TreeStep =>
     /\ result' = createSuccessResponse(
                    JsonTok(ExpectedChildren(fsys, resolveReadDirectoryPath(World, args'.path).val)))
     /\ fsys' = fsys

ListedAt(q) ==
  CHOOSE i \in DOMAIN Dirents(fsys, PathDirname(q)) : Dirents(fsys, PathDirname(q))[i] = q

====
